---- MODULE Spec2Model ----
(***************************************************************************)
(* Scene graph core of three-rs: the node store, the mutation channel,    *)
(* Hub::process_messages, Hub::update_graph and the TreeWalker.           *)
(*                                                                         *)
(* Numbers: f32 values are modelled by integers (every value used here is *)
(* exactly representable), vectors by triples <<x, y, z>> and quaternions *)
(* by 4-tuples <<w, x, y, z>> taken from the unit group {+-1,+-i,+-j,+-k}.*)
(* Pointers: a strong NodePointer is the slot index of a live node, a     *)
(* WeakPointer is [idx, epoch]; NoPtr is Option::None.                    *)
(***************************************************************************)
EXTENDS Integers, Sequences, FiniteSets, TLC

\* ------------------------------------------------------------------ bounds
MaxNodes == 4
MaxCalls == 4
MaxQueue == 2
MaxEpoch == 1
GraphNodes == 3
GraphCalls == 4
XfNodes == 2
SetCalls == 3
RaceCalls == 2
FrameCalls == 3

NoPtr == 0
\* Option<T>: None, or Some(v)
None == << >>

Some(v) == << v >>

IsSome(o) == Len(o) = 1

Unwrap(o) == o[1]

\* ------------------------------------------------------- vector arithmetic
V3Add(a, b) == << a[1] + b[1], a[2] + b[2], a[3] + b[3] >>

V3Sub(a, b) == << a[1] - b[1], a[2] - b[2], a[3] - b[3] >>

V3Scale(a, s) == << a[1] * s, a[2] * s, a[3] * s >>

V3Dot(a, b) == a[1] * b[1] + a[2] * b[2] + a[3] * b[3]

Sign(x) == IF x > 0 THEN 1 ELSE IF x < 0 THEN -1 ELSE 0

\* normalize() on the axis-aligned vectors the model uses
V3Normalize(a) == << Sign(a[1]), Sign(a[2]), Sign(a[3]) >>

QIdentity == << 1, 0, 0, 0 >>

\* Hamilton product
QMul(a, b) ==
    << a[1] * b[1] - a[2] * b[2] - a[3] * b[3] - a[4] * b[4],
       a[1] * b[2] + a[2] * b[1] + a[3] * b[4] - a[4] * b[3],
       a[1] * b[3] - a[2] * b[4] + a[3] * b[1] + a[4] * b[2],
       a[1] * b[4] + a[2] * b[3] - a[3] * b[2] + a[4] * b[1] >>

\* inverse of a unit quaternion
QInverse(q) == << q[1], -q[2], -q[3], -q[4] >>

\* Quat::rotate: q v q^-1
QRotate(q, v) ==
    LET r == QMul(QMul(q, << 0, v[1], v[2], v[3] >>), QInverse(q))
    IN  << r[2], r[3], r[4] >>

\* Quat::look_at on the directions the model uses (+z / -z, up = +y)
QLookAt(dir, up) == IF dir[3] < 0 THEN << 0, 0, 1, 0 >> ELSE QIdentity

\* ------------------------------------------------------------- node.rs
one == [disp |-> << 0, 0, 0 >>, rot |-> QIdentity, scale |-> 1]

\* a composition that leaves the parent's scale out of the displacement
concat_unscaled(self, other) ==
    [scale |-> self.scale * other.scale,
     rot   |-> QMul(self.rot, other.rot),
     disp  |-> V3Add(self.disp, QRotate(self.rot, other.disp))]

concat(self, other) ==
    [scale |-> self.scale * other.scale,
     rot   |-> QMul(self.rot, other.rot),
     disp  |-> V3Add(self.disp, QRotate(self.rot, V3Scale(other.disp, self.scale)))]

\* materials are numbered; every mesh starts with material 0
SubNode(kind) == [kind |-> kind, first_child |-> NoPtr, material |-> 0]

\* a node that starts out world-visible
NodeInternal_shown(sub) ==
    [visible         |-> TRUE,
     world_visible   |-> TRUE,
     transform       |-> one,
     world_transform |-> one,
     sub_node        |-> sub,
     next_sibling    |-> NoPtr]

NodeInternal(sub) ==
    [visible         |-> TRUE,
     world_visible   |-> FALSE,
     transform       |-> one,
     world_transform |-> one,
     sub_node        |-> sub,
     next_sibling    |-> NoPtr]

\* --------------------------------------------------------------- state
VARIABLES
    nodes,              \* froggy::Storage data: Seq of NodeInternal
    epoch,              \* froggy epoch of every slot
    free_list,          \* slots reclaimed by sync_pending, data still in place
    handles,            \* slots the client holds an object::Base for
    scene_first_child,  \* Scene::first_child
    queue,              \* mpsc channel: Seq of [target, op]
    pc,                 \* the thread that owns the hub lock
    walker,             \* the live TreeWalker, if any
    last,               \* what the most recent handler did (diagnostics included)
    calls               \* number of client calls made on handles and scenes

vars == << nodes, epoch, free_list, handles, scene_first_child, queue, pc,
           walker, last, calls >>

Slots == 1 .. Len(nodes)

Live == Slots \ free_list

NoWalker == [active |-> FALSE, done |-> FALSE, base |-> NoPtr, stack |-> << >>,
             pushed |-> << >>, popped |-> << >>, stacks |-> << >>,
             yielded |-> << >>]

Did(op, target, child, log, order) ==
    [op |-> op, target |-> target, child |-> child, log |-> log, order |-> order]

Nothing == Did("none", NoPtr, NoPtr, << >>, << >>)

Init ==
    /\ nodes = << >>
    /\ epoch = << >>
    /\ free_list = {}
    /\ handles = {}
    /\ scene_first_child = NoPtr
    /\ queue = << >>
    /\ pc = "idle"
    /\ walker = NoWalker
    /\ last = Nothing
    /\ calls = 0

\* ------------------------------------------------------------ messages
Op(type, child, visible, pos, rot, scale) ==
    [type |-> type, child |-> child, visible |-> visible,
     pos |-> pos, rot |-> rot, scale |-> scale, material |-> 0]

AddChildOp(c) == Op("AddChild", c, TRUE, None, None, None)

RemoveChildOp(c) == Op("RemoveChild", c, TRUE, None, None, None)

SetVisibleOp(b) == Op("SetVisible", NoPtr, b, None, None, None)

SetTransformOp(p, r, s) == Op("SetTransform", NoPtr, TRUE, p, r, s)

SetWeightsOp == Op("SetWeights", NoPtr, TRUE, None, None, None)

SetMaterialOp(m) ==
    [Op("SetMaterial", NoPtr, TRUE, None, None, None) EXCEPT !.material = m]

downgrade(n) == [idx |-> n, epoch |-> epoch[n]]

\* a send that also writes the visible flag into the store
send_direct(n, op) ==
    /\ Len(queue) < MaxQueue
    /\ calls < MaxCalls
    /\ queue' = Append(queue, [target |-> downgrade(n), op |-> op])
    /\ nodes' = [nodes EXCEPT ![n].visible = op.visible]
    /\ last' = Nothing
    /\ calls' = calls + 1
    /\ UNCHANGED << epoch, free_list, handles, scene_first_child, pc, walker >>

\* a send that unwraps the result of tx.send
send_unwrap(n, op) ==
    /\ Len(queue) < MaxQueue
    /\ calls < MaxCalls
    /\ queue' = IF pc = "dropped" THEN queue
                ELSE Append(queue, [target |-> downgrade(n), op |-> op])
    /\ pc' = IF pc = "dropped" THEN "panicked" ELSE pc
    /\ last' = IF pc = "dropped" THEN Did("SendError", n, NoPtr, << >>, << >>)
               ELSE Nothing
    /\ calls' = calls + 1
    /\ UNCHANGED << nodes, epoch, free_list, handles, scene_first_child, walker >>

\* a send that first takes the hub lock
send_locked(n, op) ==
    /\ pc \in { "idle", "dropped" }
    /\ Len(queue) < MaxQueue
    /\ calls < MaxCalls
    /\ queue' = IF pc = "dropped" THEN queue
                ELSE Append(queue, [target |-> downgrade(n), op |-> op])
    /\ last' = IF pc = "dropped" THEN Did("SendError", n, NoPtr, << >>, << >>)
               ELSE Nothing
    /\ calls' = calls + 1
    /\ UNCHANGED << nodes, epoch, free_list, handles, scene_first_child, pc,
                    walker >>

\* Base::send: the result of tx.send is discarded; with the receiver gone
\* tx.send hands the message back in an Err and queues nothing
send(n, op) ==
    /\ Len(queue) < MaxQueue
    /\ calls < MaxCalls
    /\ queue' = IF pc = "dropped" THEN queue
                ELSE Append(queue, [target |-> downgrade(n), op |-> op])
    /\ last' = IF pc = "dropped" THEN Did("SendError", n, NoPtr, << >>, << >>)
               ELSE Nothing
    /\ calls' = calls + 1
    /\ UNCHANGED << nodes, epoch, free_list, handles, scene_first_child, pc,
                    walker >>

set_visible(n, b) == send(n, SetVisibleOp(b))

set_transform(n, pos, rot, scale) ==
    send(n, SetTransformOp(Some(pos), Some(rot), Some(scale)))

set_position(n, pos) == send(n, SetTransformOp(Some(pos), None, None))

set_orientation(n, rot) == send(n, SetTransformOp(None, Some(rot), None))

set_scale(n, scale) == send(n, SetTransformOp(None, None, Some(scale)))

look_at(n, eye, target, up) ==
    LET dir == V3Normalize(V3Sub(eye, target))
        z   == << 0, 0, 1 >>
        dz  == V3Dot(dir, z)
        u   == IF IsSome(up) THEN V3Normalize(Unwrap(up))
               ELSE IF (IF dz < 0 THEN -dz ELSE dz) * 100 < 99 THEN z
               ELSE << 0, 1, 0 >>
        q   == QInverse(QLookAt(dir, u))
    IN  set_transform(n, eye, q, 1)

set_weights(n) == send(n, SetWeightsOp)

\* Mesh::set_material
set_material(n, m) == send(n, SetMaterialOp(m))

Group_add(g, c) == send(g, AddChildOp(c))

Group_remove(g, c) == send(g, RemoveChildOp(c))

\* ------------------------------------------------------ froggy storage
first_child_of(ns, n) ==
    IF ns[n].sub_node.kind = "Group" THEN ns[n].sub_node.first_child ELSE NoPtr

\* a count of references that sees the handles and the scene root only
Referenced_by_handles(n) ==
    \/ n \in handles
    \/ scene_first_child = n

\* some strong Pointer to slot n exists (a handle, a link stored in any
\* slot's data, the scene root, a queued AddChild/RemoveChild, the walker)
Referenced(n) ==
    \/ n \in handles
    \/ scene_first_child = n
    \/ \E j \in Slots : nodes[j].next_sibling = n \/ nodes[j].sub_node.first_child = n
    \/ \E k \in 1 .. Len(queue) : queue[k].op.child = n
    \/ \E k \in 1 .. Len(walker.stack) : walker.stack[k] = n

\* Storage::create as called by Hub::spawn: reuse a reclaimed slot if there
\* is one, else grow the storage
\* a spawn that reuses a free slot without writing the whole node
spawn_dirty(sub, limit) ==
    /\ pc = "idle"
    /\ IF free_list # {}
       THEN \E i \in free_list :
              /\ epoch[i] <= MaxEpoch
              /\ nodes' = [nodes EXCEPT ![i].sub_node = sub]
              /\ free_list' = free_list \ {i}
              /\ handles' = handles \cup {i}
              /\ epoch' = epoch
       ELSE /\ Len(nodes) < limit
            /\ nodes' = Append(nodes, NodeInternal(sub))
            /\ epoch' = Append(epoch, 0)
            /\ handles' = handles \cup {Len(nodes) + 1}
            /\ free_list' = free_list
    /\ last' = Nothing
    /\ UNCHANGED << scene_first_child, queue, pc, walker, calls >>

spawn(sub, limit) ==
    /\ pc = "idle"
    /\ IF free_list # {}
       THEN \E i \in free_list :
              /\ epoch[i] <= MaxEpoch
              /\ nodes' = [nodes EXCEPT ![i] = NodeInternal(sub)]
              /\ free_list' = free_list \ {i}
              /\ handles' = handles \cup {i}
              /\ epoch' = epoch
       ELSE /\ Len(nodes) < limit
            /\ nodes' = Append(nodes, NodeInternal(sub))
            /\ epoch' = Append(epoch, 0)
            /\ handles' = handles \cup {Len(nodes) + 1}
            /\ free_list' = free_list
    /\ last' = Nothing
    /\ UNCHANGED << scene_first_child, queue, pc, walker, calls >>

Group_new(limit) == spawn(SubNode("Group"), limit)

spawn_visual(limit) == spawn(SubNode("Visual"), limit)

\* the client drops its object::Base
drop_handle(n) ==
    /\ n \in handles
    /\ handles' = handles \ {n}
    /\ last' = Nothing
    /\ UNCHANGED << nodes, epoch, free_list, scene_first_child, queue, pc,
                    walker, calls >>

\* Storage::sync_pending: a slot whose reference count reached zero gets a
\* new epoch and joins the free list; its data stays until the slot is reused
Reclaimed == { n \in Live : ~ Referenced(n) }

\* a sync_pending that is not tied to the end of process_messages
sync_pending_eager ==
    /\ pc \in { "sync", "drain", "walk" }
    /\ epoch' = [i \in Slots |-> IF i \in Reclaimed THEN epoch[i] + 1 ELSE epoch[i]]
    /\ free_list' = free_list \cup Reclaimed
    /\ pc' = IF pc = "sync" THEN "idle" ELSE pc
    /\ last' = Nothing
    /\ UNCHANGED << nodes, handles, scene_first_child, queue, walker, calls >>

sync_pending ==
    /\ pc = "sync"
    /\ epoch' = [i \in Slots |-> IF i \in Reclaimed THEN epoch[i] + 1 ELSE epoch[i]]
    /\ free_list' = free_list \cup Reclaimed
    /\ pc' = "idle"
    /\ last' = Nothing
    /\ UNCHANGED << nodes, handles, scene_first_child, queue, walker, calls >>

\* an upgrade that does not look at the epoch
upgrade_stale(weak) == weak.idx

\* the last Arc of the hub (factory, scenes) goes away while no thread holds
\* its lock: the receiver and the messages still queued are dropped; the
\* handles keep their pointers and their senders
drop_hub ==
    /\ pc = "idle"
    /\ pc' = "dropped"
    /\ queue' = << >>
    /\ scene_first_child' = NoPtr
    /\ last' = Nothing
    /\ UNCHANGED << nodes, epoch, free_list, handles, walker, calls >>

\* an upgrade that resolves whenever the slot is occupied
upgrade_occupied(weak) == IF weak.idx \in Live THEN weak.idx ELSE NoPtr

\* WeakPointer::upgrade
upgrade(weak) == IF epoch[weak.idx] = weak.epoch THEN weak.idx ELSE NoPtr

\* ------------------------------------------------------------- chains
OLD_SIBLINGS == "added while still having old parent - discarding siblings"

NOT_FOUND == "Unable to find child for removal"

Outcome(status, ns, log) == [status |-> status, nodes |-> ns, log |-> log]

\* the sibling walk shared by Operation::RemoveChild and Scene::remove; a
\* walk longer than the store has left the finite part of the chain and
\* never ends
RECURSIVE splice(_, _, _, _, _)
\* a walk that cuts the chain at the target instead of closing it
splice_cut(ns, cur_ptr, target, next_sibling, steps) ==
    IF cur_ptr = NoPtr THEN Outcome("ok", ns, << NOT_FOUND >>)
    ELSE IF steps > Len(ns) THEN Outcome("hang", ns, << >>)
    ELSE IF ns[cur_ptr].next_sibling = target
         THEN Outcome("ok", [ns EXCEPT ![cur_ptr].next_sibling = NoPtr], << >>)
         ELSE splice(ns, ns[cur_ptr].next_sibling, target, next_sibling, steps + 1)

splice(ns, cur_ptr, target, next_sibling, steps) ==
    IF cur_ptr = NoPtr THEN Outcome("ok", ns, << NOT_FOUND >>)
    ELSE IF steps > Len(ns) THEN Outcome("hang", ns, << >>)
    ELSE IF ns[cur_ptr].next_sibling = target
         THEN Outcome("ok", [ns EXCEPT ![cur_ptr].next_sibling = next_sibling], << >>)
         ELSE splice(ns, ns[cur_ptr].next_sibling, target, next_sibling, steps + 1)

\* --------------------------------------------------------------- scene.rs
Scene_add(c) ==
    /\ pc = "idle"
    /\ calls < MaxCalls
    /\ calls' = calls + 1
    /\ c \in handles
    /\ nodes' = [nodes EXCEPT ![c].next_sibling = scene_first_child]
    /\ scene_first_child' = c
    /\ last' = Did("Scene::add", NoPtr, c,
                   IF nodes[c].next_sibling # NoPtr THEN << OLD_SIBLINGS >> ELSE << >>,
                   << >>)
    /\ UNCHANGED << epoch, free_list, handles, queue, pc, walker >>

Scene_remove(c) ==
    /\ pc = "idle"
    /\ calls < MaxCalls
    /\ calls' = calls + 1
    /\ c \in handles
    /\ LET next_sibling == nodes[c].next_sibling
           r == IF scene_first_child = c
                THEN Outcome("ok", nodes, << >>)
                ELSE splice(nodes, scene_first_child, c, next_sibling, 1)
       IN  /\ nodes' = r.nodes
           /\ scene_first_child' = IF scene_first_child = c THEN next_sibling
                                   ELSE scene_first_child
           /\ pc' = IF r.status = "hang" THEN "hung" ELSE "idle"
           /\ last' = Did("Scene::remove", NoPtr, c, r.log, << >>)
    /\ UNCHANGED << epoch, free_list, handles, queue, walker >>

\* ---------------------------------------------- hub.rs: process_messages
\* an insertion behind the head of the chain instead of in front of it
AddChild_behind(ns, ptr, child_ptr) ==
    IF ns[ptr].sub_node.kind # "Group" THEN Outcome("panic", ns, << >>)
    ELSE LET head == ns[ptr].sub_node.first_child
         IN  IF head = NoPtr \/ head = child_ptr
             THEN Outcome("ok", [ns EXCEPT ![ptr].sub_node.first_child = child_ptr], << >>)
             ELSE Outcome("ok",
                          [ns EXCEPT ![child_ptr].next_sibling = ns[head].next_sibling,
                                     ![head].next_sibling = child_ptr],
                          << >>)

AddChild(ns, ptr, child_ptr) ==
    IF ns[ptr].sub_node.kind # "Group" THEN Outcome("panic", ns, << >>)
    ELSE LET sibling == ns[ptr].sub_node.first_child
             ns1     == [ns EXCEPT ![ptr].sub_node.first_child = child_ptr]
         IN  Outcome("ok",
                     [ns1 EXCEPT ![child_ptr].next_sibling = sibling],
                     IF ns1[child_ptr].next_sibling # NoPtr
                     THEN << OLD_SIBLINGS >> ELSE << >>)

RemoveChild(ns, ptr, child_ptr) ==
    LET next_sibling == ns[child_ptr].next_sibling
    IN  IF ns[ptr].sub_node.kind # "Group" THEN Outcome("panic", ns, << >>)
        ELSE IF ns[ptr].sub_node.first_child = child_ptr
        THEN Outcome("ok", [ns EXCEPT ![ptr].sub_node.first_child = next_sibling], << >>)
        ELSE splice(ns, ns[ptr].sub_node.first_child, child_ptr, next_sibling, 1)

\* a SetVisible that writes the derived flag along with the local one
SetVisible_world(ns, ptr, visible) ==
    Outcome("ok", [ns EXCEPT ![ptr].visible = visible,
                             ![ptr].world_visible = visible], << >>)

SetVisible(ns, ptr, visible) ==
    Outcome("ok", [ns EXCEPT ![ptr].visible = visible], << >>)

\* an update that falls back to scale 1 when no scale is given
SetTransform_reset(ns, ptr, pos, rot, scale) ==
    LET t  == ns[ptr].transform
        t1 == IF IsSome(pos) THEN [t EXCEPT !.disp = Unwrap(pos)] ELSE t
        t2 == IF IsSome(rot) THEN [t1 EXCEPT !.rot = Unwrap(rot)] ELSE t1
        t3 == [t2 EXCEPT !.scale = IF IsSome(scale) THEN Unwrap(scale) ELSE 1]
    IN  Outcome("ok", [ns EXCEPT ![ptr].transform = t3], << >>)

SetTransform(ns, ptr, pos, rot, scale) ==
    LET t  == ns[ptr].transform
        t1 == IF IsSome(pos) THEN [t EXCEPT !.disp = Unwrap(pos)] ELSE t
        t2 == IF IsSome(rot) THEN [t1 EXCEPT !.rot = Unwrap(rot)] ELSE t1
        t3 == IF IsSome(scale) THEN [t2 EXCEPT !.scale = Unwrap(scale)] ELSE t2
    IN  Outcome("ok", [ns EXCEPT ![ptr].transform = t3], << >>)

SetMaterial(ns, ptr, material) ==
    IF ns[ptr].sub_node.kind = "Visual"
    THEN Outcome("ok", [ns EXCEPT ![ptr].sub_node.material = material], << >>)
    ELSE Outcome("ok", ns, << >>)

\* the match on the operation; SetWeights falls into `_ => unimplemented!()`
apply(ns, ptr, op) ==
    CASE op.type = "AddChild"     -> AddChild(ns, ptr, op.child)
      [] op.type = "SetMaterial"  -> SetMaterial(ns, ptr, op.material)
      [] op.type = "RemoveChild"  -> RemoveChild(ns, ptr, op.child)
      [] op.type = "SetVisible"   -> SetVisible(ns, ptr, op.visible)
      [] op.type = "SetTransform" -> SetTransform(ns, ptr, op.pos, op.rot, op.scale)
      [] OTHER                    -> Outcome("panic", ns, << >>)

\* the caller has taken the hub lock and enters process_messages
process_messages ==
    /\ pc = "idle"
    /\ pc' = "drain"
    /\ last' = Nothing
    /\ UNCHANGED << nodes, epoch, free_list, handles, scene_first_child, queue,
                    walker, calls >>

\* a receive that takes the newest message of the channel first
try_recv_lifo ==
    /\ pc = "drain"
    /\ queue # << >>
    /\ LET msg == queue[Len(queue)]
           ptr == upgrade(msg.target)
           r   == IF ptr = NoPtr THEN Outcome("ok", nodes, << >>)
                  ELSE apply(nodes, ptr, msg.op)
       IN  /\ queue' = SubSeq(queue, 1, Len(queue) - 1)
           /\ nodes' = r.nodes
           /\ pc' = CASE r.status = "panic" -> "panicked"
                      [] r.status = "hang"  -> "hung"
                      [] OTHER              -> "drain"
           /\ last' = Did(IF ptr = NoPtr THEN "skip" ELSE msg.op.type,
                          msg.target.idx, msg.op.child, r.log, << >>)
    /\ UNCHANGED << epoch, free_list, handles, scene_first_child, walker, calls >>

\* one turn of `while let Ok(..) = self.message_rx.try_recv()`
try_recv ==
    /\ pc = "drain"
    /\ queue # << >>
    /\ LET msg == Head(queue)
           ptr == upgrade(msg.target)
           r   == IF ptr = NoPtr THEN Outcome("ok", nodes, << >>)
                  ELSE apply(nodes, ptr, msg.op)
       IN  /\ queue' = Tail(queue)
           /\ nodes' = r.nodes
           /\ pc' = CASE r.status = "panic" -> "panicked"
                      [] r.status = "hang"  -> "hung"
                      [] OTHER              -> "drain"
           /\ last' = Did(IF ptr = NoPtr THEN "skip" ELSE msg.op.type,
                          msg.target.idx, msg.op.child, r.log, << >>)
    /\ UNCHANGED << epoch, free_list, handles, scene_first_child, walker, calls >>

\* try_recv returned Err: the loop ends, sync_pending is next
drained ==
    /\ pc = "drain"
    /\ queue = << >>
    /\ pc' = "sync"
    /\ last' = Nothing
    /\ UNCHANGED << nodes, epoch, free_list, handles, scene_first_child, queue,
                    walker, calls >>

\* ------------------------------------------------- hub.rs: update_graph
Succ(ns, n) == { ns[n].next_sibling, first_child_of(ns, n) } \ { NoPtr }

RECURSIVE ReachFrom(_, _)
ReachFrom(ns, S) ==
    LET T == S \cup UNION { Succ(ns, n) : n \in S }
    IN  IF T = S THEN S ELSE ReachFrom(ns, T)

Reach(ns, start) == IF start = NoPtr THEN {} ELSE ReachFrom(ns, {start})

\* a link cycle can be reached from start: the traversal loop never ends
Cyclic(ns, start) == \E n \in Reach(ns, start) : n \in ReachFrom(ns, Succ(ns, n))

Item(parent, ptr) == [parent |-> parent, ptr |-> ptr]

RECURSIVE update_loop(_, _, _)
\* a loop that pushes the first child under the next sibling, so that the
\* sibling is popped first
update_loop_sibling_first(stack, ns, order) ==
    IF stack = << >> THEN [nodes |-> ns, order |-> order]
    ELSE LET item == stack[Len(stack)]
             rest == SubSeq(stack, 1, Len(stack) - 1)
             ns1  == [ns EXCEPT ![item.ptr].world_transform =
                         IF item.parent # NoPtr
                         THEN concat(ns[item.parent].world_transform, ns[item.ptr].transform)
                         ELSE ns[item.ptr].transform]
             next == ns1[item.ptr].next_sibling
             fc   == first_child_of(ns1, item.ptr)
             s1   == IF fc # NoPtr THEN Append(rest, Item(item.ptr, fc)) ELSE rest
             s2   == IF next # NoPtr THEN Append(s1, Item(item.parent, next)) ELSE s1
         IN  update_loop(s2, ns1, Append(order, << item.parent, item.ptr >>))

update_loop(stack, ns, order) ==
    IF stack = << >> THEN [nodes |-> ns, order |-> order]
    ELSE LET item == stack[Len(stack)]
             rest == SubSeq(stack, 1, Len(stack) - 1)
             ns1  == [ns EXCEPT ![item.ptr].world_transform =
                         IF item.parent # NoPtr
                         THEN concat(ns[item.parent].world_transform, ns[item.ptr].transform)
                         ELSE ns[item.ptr].transform]
             next == ns1[item.ptr].next_sibling
             s1   == IF next # NoPtr THEN Append(rest, Item(item.parent, next)) ELSE rest
             fc   == first_child_of(ns1, item.ptr)
             s2   == IF fc # NoPtr THEN Append(s1, Item(item.ptr, fc)) ELSE s1
         IN  update_loop(s2, ns1, Append(order, << item.parent, item.ptr >>))

\* an update pass that starts at a node the client holds instead of the
\* scene's first child
update_graph_from_handle ==
    /\ pc = "idle"
    /\ \E n \in handles \cup ({ scene_first_child } \ { NoPtr }) :
         IF Cyclic(nodes, n)
         THEN /\ pc' = "hung"
              /\ nodes' = nodes
              /\ last' = Did("update_graph", NoPtr, NoPtr, << >>, << >>)
         ELSE LET r == update_loop(<< Item(NoPtr, n) >>, nodes, << >>)
              IN  /\ pc' = "idle"
                  /\ nodes' = r.nodes
                  /\ last' = Did("update_graph", NoPtr, NoPtr, << >>, r.order)
    /\ UNCHANGED << epoch, free_list, handles, scene_first_child, queue, walker,
                    calls >>

update_graph ==
    /\ pc = "idle"
    /\ IF Cyclic(nodes, scene_first_child)
       THEN /\ pc' = "hung"
            /\ nodes' = nodes
            /\ last' = Did("update_graph", NoPtr, NoPtr, << >>, << >>)
       ELSE LET r == update_loop(IF scene_first_child # NoPtr
                                 THEN << Item(NoPtr, scene_first_child) >> ELSE << >>,
                                 nodes, << >>)
            IN  /\ pc' = "idle"
                /\ nodes' = r.nodes
                /\ last' = Did("update_graph", NoPtr, NoPtr, << >>, r.order)
    /\ UNCHANGED << epoch, free_list, handles, scene_first_child, queue, walker,
                    calls >>

\* --------------------------------------------------- hub.rs: TreeWalker
Walked(status, stack, ns, pushed, item) ==
    [status |-> status, stack |-> stack, nodes |-> ns, pushed |-> pushed,
     popped |-> << >>, stacks |-> << >>, item |-> item]

\* TreeWalker::descend; a stack taller than the store repeats a node and
\* the descent never ends
RECURSIVE descend(_, _, _, _)
\* a descent that goes on below an invisible node
descend_from_blind(stack, ns, ptr, pushed) ==
    IF first_child_of(ns, ptr) = NoPtr
    THEN Walked("ok", stack, ns, pushed, NoPtr)
    ELSE descend(stack, ns, first_child_of(ns, ptr), pushed)

descend_from(stack, ns, ptr, pushed) ==
    IF ~ ns[ptr].visible \/ first_child_of(ns, ptr) = NoPtr
    THEN Walked("ok", stack, ns, pushed, NoPtr)
    ELSE descend(stack, ns, first_child_of(ns, ptr), pushed)

descend(stack, ns, ptr, pushed) ==
    IF Len(stack) > Len(ns) THEN Walked("hang", stack, ns, pushed, NoPtr)
    ELSE IF stack = << >>
    THEN descend_from(<< ptr >>, ns, ptr, Append(pushed, << NoPtr, ptr >>))
    ELSE descend_from(
            Append(stack, ptr),
            [ns EXCEPT ![ptr].world_visible =
                          ns[stack[Len(stack)]].world_visible /\ ns[ptr].visible,
                       ![ptr].world_transform =
                          concat(ns[stack[Len(stack)]].world_transform, ns[ptr].transform)],
            ptr,
            Append(pushed, << stack[Len(stack)], ptr >>))

\* Iterator::next for TreeWalker: pops until a world-visible node or the
\* end of the stack; over acyclic links one call pops at most once per link
\* path, fewer than 2 ^ Len(nodes) times, so a loop that uses up that fuel
\* never ends
RECURSIVE next_loop(_, _, _, _)
\* a pop that hands out the node whatever its world_visible
next_top_any(d, top, fuel) ==
    IF d.status = "hang" THEN d
    ELSE Walked("ok", d.stack, d.nodes, d.pushed, top)

next_top(d, top, fuel) ==
    IF d.status = "hang" THEN d
    ELSE IF d.nodes[top].world_visible
         THEN Walked("ok", d.stack, d.nodes, d.pushed, top)
         ELSE next_loop(d.stack, d.nodes, d.pushed, fuel - 1)

\* a turn that leaves the popped node on the stack below its sibling
next_pop_keep(rest, ns, pushed, top, fuel) ==
    LET d == IF ns[top].next_sibling # NoPtr
             THEN descend(Append(rest, top), ns, ns[top].next_sibling, pushed)
             ELSE Walked("ok", rest, ns, pushed, NoPtr)
    IN  [next_top(d, top, fuel)
         EXCEPT !.popped = << top >> \o @, !.stacks = << d.stack >> \o @]

\* one turn of `while let Some(top) = self.stack.pop()`; popped lists the
\* nodes taken off the stack by this call of next, in order, and stacks the
\* stack as each turn leaves it
next_pop(rest, ns, pushed, top, fuel) ==
    LET d == IF ns[top].next_sibling # NoPtr
             THEN descend(rest, ns, ns[top].next_sibling, pushed)
             ELSE Walked("ok", rest, ns, pushed, NoPtr)
    IN  [next_top(d, top, fuel)
         EXCEPT !.popped = << top >> \o @, !.stacks = << d.stack >> \o @]

\* a loop that takes the oldest node of the stack instead of the top
next_loop_fifo(stack, ns, pushed, fuel) ==
    IF stack = << >> THEN Walked("ok", stack, ns, pushed, NoPtr)
    ELSE IF fuel = 0 THEN Walked("hang", stack, ns, pushed, NoPtr)
    ELSE next_pop(Tail(stack), ns, pushed, Head(stack), fuel)

next_loop(stack, ns, pushed, fuel) ==
    IF stack = << >> THEN Walked("ok", stack, ns, pushed, NoPtr)
    ELSE IF fuel = 0 THEN Walked("hang", stack, ns, pushed, NoPtr)
    ELSE next_pop(SubSeq(stack, 1, Len(stack) - 1), ns, pushed, stack[Len(stack)], fuel)

\* Hub::walk: the walker borrows the hub until it is dropped
walk(base) ==
    /\ pc = "idle"
    /\ base \in handles \cup ({scene_first_child} \ {NoPtr})
    /\ \E d \in { descend(<< >>, nodes, base, << >>) } :
           /\ nodes' = d.nodes
           /\ pc' = IF d.status = "hang" THEN "hung" ELSE "walk"
           /\ walker' = [active |-> TRUE, done |-> FALSE, base |-> base,
                         stack |-> d.stack, pushed |-> d.pushed, popped |-> << >>,
                         stacks |-> << d.stack >>,
                         yielded |-> << >>]
    /\ last' = Nothing
    /\ UNCHANGED << epoch, free_list, handles, scene_first_child, queue, calls >>

next ==
    /\ pc = "walk"
    /\ ~ walker.done
    /\ \E r \in { next_loop(walker.stack, nodes, walker.pushed, 2 ^ Len(nodes)) } :
           /\ nodes' = r.nodes
           /\ pc' = IF r.status = "hang" THEN "hung" ELSE "walk"
           /\ walker' = [walker EXCEPT
                           !.stack = r.stack,
                           !.pushed = r.pushed,
                           !.popped = @ \o r.popped,
                           !.stacks = @ \o r.stacks,
                           !.done = (r.status = "ok" /\ r.item = NoPtr),
                           !.yielded = IF r.item # NoPtr THEN Append(@, r.item) ELSE @]
    /\ last' = Nothing
    /\ UNCHANGED << epoch, free_list, handles, scene_first_child, queue, calls >>

drop_walker ==
    /\ pc = "walk"
    /\ pc' = "idle"
    /\ walker' = NoWalker
    /\ last' = Nothing
    /\ UNCHANGED << nodes, epoch, free_list, handles, scene_first_child, queue, calls >>

\* ------------------------------------------------------- specifications
Groups == { g \in handles : nodes[g].sub_node.kind = "Group" }

AllGroups == \A n \in Slots : nodes[n].sub_node.kind = "Group"

\* Slot numbers carry no meaning and a spawn commutes with every other
\* call, so the single-threaded specifications create their nodes first,
\* groups before meshes.

\* SpecWalk: a single-threaded program builds a forest, hides nodes and runs
\* frames (process_messages, then update_graph or a walk)
NextWalk ==
    \/ calls = 0 /\ AllGroups /\ Group_new(MaxNodes)
    \/ calls = 0 /\ spawn_visual(MaxNodes)
    \/ pc = "idle" /\ \E n \in handles : set_visible(n, FALSE)
    \/ pc = "idle" /\ \E g \in Groups, c \in handles : c > g /\ Group_add(g, c)
    \/ \E c \in handles : Scene_add(c)
    \/ process_messages
    \/ try_recv
    \/ drained
    \/ sync_pending
    \/ queue = << >> /\ update_graph
    \/ queue = << >> /\ \E b \in handles : walk(b)
    \/ next
    \/ drop_walker

SpecWalk == Init /\ [][NextWalk]_vars

\* SpecGraph: a single-threaded program adds and removes children of groups
\* and of the scene in any combination
NextGraph ==
    \/ calls = 0 /\ AllGroups /\ Group_new(GraphNodes)
    \/ calls = 0 /\ spawn_visual(GraphNodes)
    \/ pc = "idle" /\ calls < GraphCalls /\ \E g \in Groups, c \in handles : Group_add(g, c)
    \/ pc = "idle" /\ calls < GraphCalls /\ \E g \in Groups, c \in handles : Group_remove(g, c)
    \/ calls < GraphCalls /\ \E c \in handles : Scene_add(c)
    \/ calls < GraphCalls /\ \E c \in handles : Scene_remove(c)
    \/ process_messages
    \/ try_recv
    \/ drained
    \/ sync_pending

SpecGraph == Init /\ [][NextGraph]_vars

\* SpecXf: a single-threaded program places a group and a mesh and runs frames
QI == << 0, 1, 0, 0 >>

QJ == << 0, 0, 1, 0 >>

Pos == { << 1, 0, 0 >>, << 5, 0, 0 >> }

XfArgs == { << << 5, 0, 0 >>, QIdentity, 2 >>, << << 0, 1, 0 >>, QI, 2 >> }

NextXf ==
    \/ calls = 0 /\ AllGroups /\ Group_new(XfNodes)
    \/ calls = 0 /\ spawn_visual(XfNodes)
    \/ pc = "idle" /\ \E n \in handles, p \in Pos : set_position(n, p)
    \/ pc = "idle" /\ \E n \in handles : set_orientation(n, QJ)
    \/ pc = "idle" /\ \E n \in handles : set_scale(n, 2)
    \/ pc = "idle" /\ \E n \in handles, a \in XfArgs : set_transform(n, a[1], a[2], a[3])
    \/ pc = "idle" /\ \E g \in Groups, c \in handles : Group_add(g, c)
    \/ \E c \in handles : Scene_add(c)
    \/ process_messages
    \/ try_recv
    \/ drained
    \/ sync_pending
    \/ queue = << >> /\ update_graph

SpecXf == Init /\ [][NextXf]_vars

\* SpecSet: client threads call every setter of a handle, and crate code
\* sends operations to handles of any kind, while the render thread drains
\* the channel
Eyes == { << 0, 0, 5 >> }

Targets == { << 0, 0, 0 >>, << 0, 0, 7 >> }

NextSet ==
    \/ calls = 0 /\ AllGroups /\ Group_new(XfNodes)
    \/ calls = 0 /\ spawn_visual(XfNodes)
    \/ calls < SetCalls /\ \E n \in handles, b \in BOOLEAN : set_visible(n, b)
    \/ calls < SetCalls /\ \E n \in handles, p \in Pos : set_position(n, p)
    \/ calls < SetCalls /\ \E n \in handles : set_orientation(n, QJ)
    \/ calls < SetCalls /\ \E n \in handles : set_scale(n, 2)
    \/ calls < SetCalls /\ \E n \in handles, a \in XfArgs : set_transform(n, a[1], a[2], a[3])
    \/ calls < SetCalls /\ \E n \in handles, e \in Eyes, t \in Targets : look_at(n, e, t, None)
    \/ calls < SetCalls /\ \E n \in handles : set_weights(n)
    \/ calls < SetCalls /\ \E n \in handles : send(n, SetTransformOp(None, None, None))
    \/ calls < SetCalls /\ \E n \in handles : set_material(n, 1)
    \/ calls < SetCalls /\ \E n \in handles \ Groups, c \in handles : send(n, AddChildOp(c))
    \/ calls < SetCalls /\ \E g \in Groups, c \in handles : Group_add(g, c)
    \/ calls < SetCalls /\ \E g \in Groups, c \in handles : Group_remove(g, c)
    \/ process_messages
    \/ try_recv
    \/ drained
    \/ sync_pending

SpecSet == Init /\ [][NextSet]_vars

\* SpecRace: client threads send, add to the scene, drop their handles and
\* create new objects while the render thread drains the channel, reclaims
\* nodes, updates the graph and walks the scene; the hub may be dropped
NextRace ==
    \/ Group_new(XfNodes)
    \/ spawn_visual(XfNodes)
    \/ \E n \in handles : drop_handle(n)
    \/ calls < RaceCalls /\ \E n \in handles : set_visible(n, FALSE)
    \/ calls < RaceCalls /\ \E g \in Groups, c \in handles : Group_add(g, c)
    \/ calls < RaceCalls /\ \E c \in handles : Scene_add(c)
    \/ process_messages
    \/ try_recv
    \/ drained
    \/ sync_pending
    \/ queue = << >> /\ update_graph
    \/ queue = << >> /\ walk(scene_first_child)
    \/ next
    \/ drop_walker
    \/ drop_hub

SpecRace == Init /\ [][NextRace]_vars

\* ------------------------------------------------------ shape of the graph
RECURSIVE chain_from(_, _, _)
chain_from(ns, cur, seen) ==
    IF cur = NoPtr \/ cur \in seen THEN seen
    ELSE chain_from(ns, ns[cur].next_sibling, seen \cup {cur})

\* the nodes of the sibling chain that starts at first
Chain(ns, first) == chain_from(ns, first, {})

Children(ns, g) == Chain(ns, first_child_of(ns, g))

\* the direct children of the scene root
Roots == Chain(nodes, scene_first_child)

InScene == Reach(nodes, scene_first_child)

Parents(c) == { g \in InScene : c \in Children(nodes, g) }

\* c hangs at exactly one place of the scene: below the group p
ChildOf(c, p) == c \in InScene /\ c \notin Roots /\ Parents(c) = {p}

TopLevel(c) == c \in Roots /\ Parents(c) = {}

\* a full update pass has just returned
Updated == last.op = "update_graph" /\ pc = "idle"

\* every node of the scene hangs at exactly one place
Tree == \A n \in InScene : TopLevel(n) \/ \E p \in InScene : ChildOf(n, p)

RECURSIVE Ancestors(_, _)
Ancestors(c, depth) ==
    IF depth = 0 THEN {}
    ELSE Parents(c) \cup UNION { Ancestors(p, depth - 1) : p \in Parents(c) }

\* the node and all of its ancestors have visible = true
AllVisible(c) ==
    nodes[c].visible /\ \A a \in Ancestors(c, Len(nodes)) : nodes[a].visible

\* ---------------------------------------------------------------- claims

\* C1: after process_messages and update_graph, every node reachable from the
\* scene root has as world_transform its own local transform when it is a
\* direct child of the scene root, and otherwise the composition of its
\* parent's world_transform with its local transform: the scales multiply, the
\* orientation is the parent's followed by the child's, the position is the
\* parent's plus the parent's orientation applied to the child's position
\* scaled by the parent's scale.  A child at local (1,0,0) of an unrotated
\* parent at (0,0,0) with scale 2 has world position (2,0,0).
C1_WorldTransformIsComposition ==
    Updated =>
        /\ \A c \in InScene :
              TopLevel(c) => nodes[c].world_transform = nodes[c].transform
        /\ \A c \in InScene, p \in InScene :
              ChildOf(c, p) =>
                LET P == nodes[p].world_transform
                    C == nodes[c].transform
                    W == nodes[c].world_transform
                IN  /\ W.scale = P.scale * C.scale
                    /\ W.rot = QMul(P.rot, C.rot)
                    /\ W.disp = V3Add(P.disp, QRotate(P.rot, V3Scale(C.disp, P.scale)))
                    /\ (P = [disp |-> << 0, 0, 0 >>, rot |-> QIdentity, scale |-> 2]
                           /\ C.disp = << 1, 0, 0 >>)
                        => W.disp = << 2, 0, 0 >>

\* a frame has placed a child at local (1,0,0) below a parent at the origin
\* with scale 2
C1_Witness ==
    /\ Updated
    /\ \E c \in InScene, p \in InScene :
          /\ ChildOf(c, p)
          /\ nodes[p].world_transform =
                [disp |-> << 0, 0, 0 >>, rot |-> QIdentity, scale |-> 2]
          /\ nodes[c].transform.disp = << 1, 0, 0 >>
          /\ nodes[c].world_transform.disp = << 2, 0, 0 >>

\* C2: after process_messages and update_graph a node's world_visible is true
\* exactly when the node and all of its ancestors are visible; a mesh at local
\* (1,0,0) in a group with transform [(5,0,0), identity, 2] that is in the
\* scene has world position (7,0,0) and world_visible = true.
C2_WorldVisibleAfterUpdate ==
    (Updated /\ Tree) =>
        /\ \A n \in InScene : nodes[n].world_visible = AllVisible(n)
        /\ \A m \in InScene, g \in InScene :
              ( /\ ChildOf(m, g)
                /\ TopLevel(g)
                /\ nodes[g].transform =
                      [disp |-> << 5, 0, 0 >>, rot |-> QIdentity, scale |-> 2]
                /\ nodes[m].transform.disp = << 1, 0, 0 >>
                /\ AllVisible(m) )
              => /\ nodes[m].world_transform.disp = << 7, 0, 0 >>
                 /\ nodes[m].world_visible

\* the position half of C2's example, which update_graph does compute
C2_PositionOnly ==
    Updated =>
        \A m \in InScene, g \in InScene :
            ( /\ ChildOf(m, g)
              /\ TopLevel(g)
              /\ nodes[g].transform =
                    [disp |-> << 5, 0, 0 >>, rot |-> QIdentity, scale |-> 2]
              /\ nodes[m].transform.disp = << 1, 0, 0 >> )
            => nodes[m].world_transform.disp = << 7, 0, 0 >>

\* the end-to-end example has run: the mesh is placed but not world-visible
C2_ExampleReached ==
    /\ Updated
    /\ \E m \in InScene, g \in InScene :
          /\ ChildOf(m, g)
          /\ TopLevel(g)
          /\ nodes[g].transform =
                [disp |-> << 5, 0, 0 >>, rot |-> QIdentity, scale |-> 2]
          /\ nodes[m].transform.disp = << 1, 0, 0 >>
          /\ AllVisible(m)
          /\ nodes[m].world_transform.disp = << 7, 0, 0 >>
          /\ ~ nodes[m].world_visible

\* an update pass has ended: update_graph, or a walk run to its end
AfterPass == Updated \/ (pc = "walk" /\ walker.done)

\* a chain p -> c -> g with p visible, c invisible and g visible
HiddenChain(p, c, g) ==
    /\ c \in Children(nodes, p)
    /\ g \in Children(nodes, c)
    /\ nodes[p].visible
    /\ ~ nodes[c].visible
    /\ nodes[g].visible

\* C3: invisibility propagates downward: for a chain parent -> child ->
\* grandchild with parent visible, child invisible and grandchild visible,
\* after the update pass (update_graph, or a walk run to its end) the child
\* and the grandchild both have world_visible = false.
C3_InvisibilityPropagates ==
    AfterPass =>
        \A p \in Live, c \in Live, g \in Live :
            HiddenChain(p, c, g) =>
                ~ nodes[c].world_visible /\ ~ nodes[g].world_visible

\* update_graph has run over a scene that holds such a chain
C3_Witness ==
    /\ Updated
    /\ \E p \in Roots, c \in Live, g \in Live :
          /\ HiddenChain(p, c, g)
          /\ << p, c >> \in { last.order[k] : k \in 1 .. Len(last.order) }
          /\ << c, g >> \in { last.order[k] : k \in 1 .. Len(last.order) }

\* how often the walker has yielded n
Yields(n) == Cardinality({ k \in 1 .. Len(walker.yielded) : walker.yielded[k] = n })

Pushed == { walker.pushed[k][2] : k \in 1 .. Len(walker.pushed) }

\* the walk from walker.base has ended, and below the base there is exactly
\* one invisible node, i, with exactly the two visible children k1 and k2
PrunedWalk(i, k1, k2) ==
    /\ pc = "walk" /\ walker.done
    /\ LET below == Reach(nodes, first_child_of(nodes, walker.base))
       IN  /\ { i, k1, k2 } \subseteq below
           /\ \A n \in below : nodes[n].visible = (n # i)
    /\ k1 # k2
    /\ Children(nodes, i) = { k1, k2 }

Visits ==
    IF last.op = "update_graph" THEN last.order
    ELSE IF walker.active THEN walker.pushed
    ELSE << >>

\* a traversal processes the head of a child chain before its successor
HeadFirst ==
    \A g \in Live, c1 \in Live, c2 \in Live :
        ( /\ first_child_of(nodes, g) = c2
          /\ nodes[c2].next_sibling = c1
          /\ c1 # c2 )
        => \A k \in 1 .. Len(Visits) :
              Visits[k] = << g, c1 >>
              => \E j \in 1 .. (k - 1) : Visits[j] = << g, c2 >>

\* process_messages applies an AddChild message to a live group
AppliesAddChild ==
    /\ pc = "drain" /\ queue # << >> /\ queue' = Tail(queue)
    /\ Head(queue).op.type = "AddChild"
    /\ upgrade(Head(queue).target) # NoPtr
    /\ pc' = "drain"

\* C5: AddChild inserts at the head: once AddChild(C) for group G is applied,
\* G.first_child = C and C.next_sibling = G's previous first_child; so the
\* child chain after adding C1 then C2 is C2, C1, and update_graph and the
\* Tree Walker process C2 before C1.
C5_HeadInsertion ==
    [][ /\ AppliesAddChild =>
            LET g == Head(queue).target.idx
                c == Head(queue).op.child
            IN  /\ nodes'[g].sub_node.first_child = c
                /\ nodes'[c].next_sibling = nodes[g].sub_node.first_child
        /\ HeadFirst' ]_vars

\* C1 then C2 were added to a group and a traversal has processed both
C5_Witness ==
    \E g \in Live, c1 \in Live, c2 \in Live :
        /\ first_child_of(nodes, g) = c2
        /\ nodes[c2].next_sibling = c1
        /\ nodes[c1].next_sibling = NoPtr
        /\ c1 # c2
        /\ \E j, k \in 1 .. Len(Visits) :
              j < k /\ Visits[j] = << g, c2 >> /\ Visits[k] = << g, c1 >>

\* no node of this store has ever been world-visible
NeverWorldVisible == \A n \in Slots : ~ nodes[n].world_visible

\* process_messages receives a message whose target has been destroyed: the
\* slot's epoch is no longer the one the message's weak pointer was made at
ReceivesForDead ==
    /\ pc = "drain" /\ queue # << >> /\ queue' = Tail(queue)
    /\ epoch[Head(queue).target.idx] # Head(queue).target.epoch

\* C6: a message whose target node was destroyed before process_messages
\* runs is dropped silently: process_messages does not panic, does not apply
\* the mutation, and leaves every node of the store unchanged.
C6_DeadTargetDropped ==
    [][ ReceivesForDead =>
            /\ nodes' = nodes
            /\ scene_first_child' = scene_first_child
            /\ pc' = "drain"
            /\ last'.log = << >> ]_vars

\* a message for a reclaimed node was received while another node is live,
\* and the reclaimed slot's data still shows visible = true
C6_Witness ==
    /\ last.op = "skip"
    /\ pc = "drain"
    /\ last.target \in free_list
    /\ nodes[last.target].visible
    /\ Live # {}

\* process_messages applies RemoveChild(c) to a live group whose child chain
\* does not hold c
RemovesNonMember ==
    /\ pc = "drain" /\ queue # << >> /\ queue' = Tail(queue)
    /\ Head(queue).op.type = "RemoveChild"
    /\ epoch[Head(queue).target.idx] = Head(queue).target.epoch
    /\ nodes[Head(queue).target.idx].sub_node.kind = "Group"
    /\ Head(queue).op.child \notin Children(nodes, Head(queue).target.idx)

\* Scene::remove(c) is called on a scene whose root chain does not hold c
SceneRemovesNonMember ==
    /\ last'.op = "Scene::remove"
    /\ last'.child \notin Roots

\* C7: remove(child) on a group or scene whose child chain does not contain
\* the child logs an error and is otherwise a no-op: every first_child and
\* next_sibling is unchanged, and processing continues with the next message.
C7_RemoveNonMemberIsNoOp ==
    [][ /\ RemovesNonMember =>
            /\ last'.log = << NOT_FOUND >>
            /\ nodes' = nodes
            /\ scene_first_child' = scene_first_child
            /\ pc' = "drain"
        /\ SceneRemovesNonMember =>
            /\ last'.log = << NOT_FOUND >>
            /\ nodes' = nodes
            /\ scene_first_child' = scene_first_child
            /\ pc' = "idle" ]_vars

\* the sibling chain that starts at first runs into itself
Loops(ns, first) ==
    \E n \in Chain(ns, first) : n \in Chain(ns, ns[n].next_sibling)

\* C7 holds on every chain that ends
C7_OnEndingChains ==
    [][ /\ (RemovesNonMember
             /\ ~ Loops(nodes, first_child_of(nodes, Head(queue).target.idx))) =>
            /\ last'.log = << NOT_FOUND >>
            /\ nodes' = nodes
            /\ scene_first_child' = scene_first_child
            /\ pc' = "drain"
        /\ (SceneRemovesNonMember /\ ~ Loops(nodes, scene_first_child)) =>
            /\ last'.log = << NOT_FOUND >>
            /\ nodes' = nodes
            /\ scene_first_child' = scene_first_child
            /\ pc' = "idle" ]_vars

\* a removal walks a sibling chain that never ends
C7_RemovalHangs ==
    /\ pc = "hung"
    /\ last.op \in { "RemoveChild", "Scene::remove" }
    /\ last.log = << >>

\* process_messages applies a SetTransform message to a live node
AppliesSetTransform ==
    /\ pc = "drain" /\ queue # << >> /\ queue' = Tail(queue)
    /\ Head(queue).op.type = "SetTransform"
    /\ epoch[Head(queue).target.idx] = Head(queue).target.epoch

\* C8: applying SetTransform(pos, rot, scale) changes exactly the components
\* that are Some and leaves the None components as they were;
\* SetTransform(None, None, None) leaves the transform identical; so
\* set_position, set_orientation and set_scale change only their own
\* component, and only of the target node.
C8_PartialTransformUpdate ==
    [][ AppliesSetTransform =>
            LET op  == Head(queue).op
                t   == Head(queue).target.idx
                old == nodes[t].transform
                new == nodes'[t].transform
            IN  /\ new.disp = IF IsSome(op.pos) THEN Unwrap(op.pos) ELSE old.disp
                /\ new.rot = IF IsSome(op.rot) THEN Unwrap(op.rot) ELSE old.rot
                /\ new.scale = IF IsSome(op.scale) THEN Unwrap(op.scale) ELSE old.scale
                /\ nodes' = [nodes EXCEPT ![t].transform = new]
                /\ (op.pos = None /\ op.rot = None /\ op.scale = None) => nodes' = nodes
      ]_vars

\* a transform that only single-component setters can have produced
C8_Witness ==
    /\ last.op = "SetTransform"
    /\ nodes[last.target].transform =
          [disp |-> << 1, 0, 0 >>, rot |-> QJ, scale |-> 2]

\* process_messages applies the message of a look_at call (the only calls
\* that place a node at one of Eyes) to a live node
AppliesLookAt ==
    /\ AppliesSetTransform
    /\ IsSome(Head(queue).op.pos)
    /\ Unwrap(Head(queue).op.pos) \in Eyes

\* C9: look_at(eye, target, up) issues SetTransform(Some(eye), Some(q), None):
\* once it is processed the node's position and orientation are replaced and
\* its scale keeps its prior value.
C9_LookAtKeepsScale ==
    [][ AppliesLookAt =>
            LET op == Head(queue).op
                t  == Head(queue).target.idx
            IN  /\ nodes'[t].transform.disp = Unwrap(op.pos)
                /\ IsSome(op.rot) /\ nodes'[t].transform.rot = Unwrap(op.rot)
                /\ nodes'[t].transform.scale = nodes[t].transform.scale
      ]_vars

\* what look_at does do: it replaces position and orientation and sets the
\* scale to 1
C9_LookAtResetsScale ==
    [][ AppliesLookAt =>
            LET op == Head(queue).op
                t  == Head(queue).target.idx
            IN  /\ nodes'[t].transform.disp = Unwrap(op.pos)
                /\ IsSome(op.rot) /\ nodes'[t].transform.rot = Unwrap(op.rot)
                /\ nodes'[t].transform.scale = 1
      ]_vars

\* a look_at is about to be applied to a node of scale 2
C9_Witness ==
    /\ pc = "drain" /\ queue # << >>
    /\ Head(queue).op.type = "SetTransform"
    /\ epoch[Head(queue).target.idx] = Head(queue).target.epoch
    /\ IsSome(Head(queue).op.pos)
    /\ Unwrap(Head(queue).op.pos) \in Eyes
    /\ Head(queue).op.scale = Some(1)
    /\ nodes[Head(queue).target.idx].transform.scale = 2

\* C10: the mutation methods of a handle are fire-and-forget: a call appends
\* one message to the channel and does nothing else, and the fields of the
\* nodes in the store change only when process_messages applies a message.
C10_FireAndForget ==
    [][ /\ Len(queue') > Len(queue) =>
            /\ queue' = Append(queue, queue'[Len(queue')])
            /\ nodes' = nodes
            /\ scene_first_child' = scene_first_child
            /\ epoch' = epoch /\ free_list' = free_list /\ handles' = handles
            /\ pc' = pc
        /\ (nodes' # nodes /\ handles' = handles) =>
            /\ pc = "drain" /\ queue # << >> /\ queue' = Tail(queue)
      ]_vars

\* set_visible(false) has returned and its node is still visible
C10_Witness ==
    \E k \in 1 .. Len(queue) :
        /\ queue[k].op.type = "SetVisible"
        /\ ~ queue[k].op.visible
        /\ queue[k].target.idx \in Live
        /\ nodes[queue[k].target.idx].visible
        /\ pc = "idle"

\* the messages of the channel q that set the position of the live node n
PositionSends(q, ep, n) ==
    { k \in 1 .. Len(q) :
        /\ q[k].target = [idx |-> n, epoch |-> ep[n]]
        /\ q[k].op.type = "SetTransform"
        /\ IsSome(q[k].op.pos) }

\* the position n has once everything sent so far has been applied in the
\* order it was sent
SettledPosition(q, ns, ep, n) ==
    IF PositionSends(q, ep, n) = {} THEN ns[n].transform.disp
    ELSE Unwrap(q[CHOOSE k \in PositionSends(q, ep, n) :
                    \A j \in PositionSends(q, ep, n) : j <= k].op.pos)

\* C11: messages sent through one handle are applied by process_messages in
\* the order they were sent: a send becomes the newest pending update of its
\* node, and applying a message never changes what the pending updates add up
\* to, so set_position(a) then set_position(b) leaves position b.
C11_AppliedInSendOrder ==
    [][ /\ (pc = "drain" /\ queue # << >> /\ Len(queue') < Len(queue)
            /\ pc' = "drain") =>
            /\ queue' = Tail(queue)
            /\ \A n \in Live : SettledPosition(queue', nodes', epoch', n)
                                = SettledPosition(queue, nodes, epoch, n)
        /\ Len(queue') > Len(queue) =>
            LET m == queue'[Len(queue')]
            IN  (m.op.type = "SetTransform" /\ IsSome(m.op.pos))
                => SettledPosition(queue', nodes', epoch', m.target.idx)
                       = Unwrap(m.op.pos)
      ]_vars

\* set_position((1,0,0)) then set_position((5,0,0)) were sent to one node:
\* the first has been applied, the second is next
C11_Witness ==
    /\ pc = "drain"
    /\ last.op = "SetTransform"
    /\ Len(queue) = 1
    /\ queue[1].target.idx = last.target
    /\ queue[1].op = SetTransformOp(Some(<< 5, 0, 0 >>), None, None)
    /\ nodes[last.target].transform.disp = << 1, 0, 0 >>

\* C12: process_messages is a non-blocking drain: it never waits for a
\* message, it ends once the producers stop sending (every turn of the loop
\* ends, and an empty channel ends the loop), it returns only with the channel
\* empty, and every message it takes whose target resolves is taken once and
\* applied.
C12_NonBlockingDrain ==
    [][ pc = "drain" =>
            /\ pc' \in { "drain", "sync", "panicked" }
            /\ pc' = "sync" => (queue = << >> /\ queue' = << >>)
            /\ (queue = << >> /\ pc' # pc) => pc' = "sync"
            /\ (pc' = "drain" /\ Len(queue') < Len(queue)) =>
                  /\ queue' = Tail(queue)
                  /\ (Head(queue).op.type = "SetVisible"
                      /\ epoch[Head(queue).target.idx] = Head(queue).target.epoch)
                     => nodes'[Head(queue).target.idx].visible = Head(queue).op.visible
      ]_vars

\* C12 but for the turns of the loop that never end
C12_UnlessATurnHangs ==
    [][ (pc = "drain" /\ pc' # "hung") =>
            /\ pc' \in { "drain", "sync", "panicked" }
            /\ pc' = "sync" => (queue = << >> /\ queue' = << >>)
            /\ (queue = << >> /\ pc' # pc) => pc' = "sync"
            /\ (pc' = "drain" /\ Len(queue') < Len(queue)) =>
                  /\ queue' = Tail(queue)
                  /\ (Head(queue).op.type = "SetVisible"
                      /\ epoch[Head(queue).target.idx] = Head(queue).target.epoch)
                     => nodes'[Head(queue).target.idx].visible = Head(queue).op.visible
      ]_vars

\* process_messages is stuck in the sibling walk of a RemoveChild whose
\* group's child chain runs into itself
C12_DrainHangs ==
    /\ pc = "hung"
    /\ last.op = "RemoveChild"
    /\ Loops(nodes, first_child_of(nodes, last.target))

\* C13: sending through a handle after the hub has been dropped does not
\* crash: the send fails silently, changes no state, and the handle stays
\* usable for further sends, which are ignored as well.
C13_SendAfterHubDropped ==
    [][ (pc = "dropped" /\ calls' # calls) =>
            /\ pc' = "dropped"
            /\ last'.op = "SendError" /\ last'.log = << >>
            /\ queue' = << >>
            /\ nodes' = nodes /\ epoch' = epoch /\ free_list' = free_list
            /\ scene_first_child' = scene_first_child
            /\ handles' = handles
      ]_vars

\* a send has failed after the hub was dropped, with nothing queued and
\* the handle still held
C13_Witness ==
    /\ pc = "dropped"
    /\ last.op = "SendError"
    /\ last.target \in handles
    /\ calls = RaceCalls
    /\ queue = << >>

\* the payload of a node of this kind is not the one the operation is for
Mismatch(op, kind) ==
    \/ op.type = "SetMaterial" /\ kind # "Visual"
    \/ op.type \in { "AddChild", "RemoveChild" } /\ kind # "Group"

\* process_messages receives an operation for a live node whose payload
\* does not match it
ReceivesMismatch ==
    /\ pc = "drain" /\ queue # << >> /\ Len(queue') < Len(queue)
    /\ epoch[Head(queue).target.idx] = Head(queue).target.epoch
    /\ Mismatch(Head(queue).op, nodes[Head(queue).target.idx].sub_node.kind)

\* C14: an operation applied to a node whose payload kind does not match it
\* (SetMaterial on a node that is no Visual, AddChild or RemoveChild on a node
\* that is no Group) is fatal to process_messages and never silently ignored.
C14_MismatchIsFatal ==
    [][ ReceivesMismatch => pc' = "panicked" ]_vars

\* what the code does: only AddChild and RemoveChild on a node that is no
\* Group are fatal; SetMaterial on a node that is no Visual changes nothing
\* and the loop goes on
C14_OnlyGroupOpsAreFatal ==
    [][ ReceivesMismatch =>
            IF Head(queue).op.type = "SetMaterial"
            THEN pc' = "drain" /\ nodes' = nodes /\ last'.log = << >>
            ELSE pc' = "panicked" ]_vars

\* process_messages has just passed over a SetMaterial for a group
C14_SilentlyIgnored ==
    /\ pc = "drain"
    /\ last.op = "SetMaterial"
    /\ nodes[last.target].sub_node.kind = "Group"
    /\ last.log = << >>

\* the child chains that hold n: the groups whose chain n is in, and NoPtr
\* for the chain of the scene root
Holders(n) ==
    { g \in Live : nodes[g].sub_node.kind = "Group" /\ n \in Children(nodes, g) }
        \cup (IF n \in Roots THEN { NoPtr } ELSE {})

\* C15: after any sequence of add and remove calls every node is in at most
\* one child chain (a group's or the scene root's); adding a node to a second
\* parent without removing it from the first never leaves it reachable from
\* both parents' chains.
C15_AtMostOneChain ==
    \A n \in Live : Cardinality(Holders(n)) <= 1

\* a child added to a second group without removal heads both groups' chains,
\* and the second add logged nothing
C15_InTwoChains ==
    \E g1 \in Live, g2 \in Live, c \in Live :
        /\ g1 # g2 /\ c \notin { g1, g2 }
        /\ first_child_of(nodes, g1) = c
        /\ first_child_of(nodes, g2) = c
        /\ last.op = "AddChild" /\ last.child = c /\ last.log = << >>

\* process_messages receives an AddChild for a live group
ReceivesAddChild ==
    /\ pc = "drain" /\ queue # << >> /\ Len(queue') < Len(queue)
    /\ Head(queue).op.type = "AddChild"
    /\ epoch[Head(queue).target.idx] = Head(queue).target.epoch

\* a call of Scene::add
CallsSceneAdd == calls' = calls + 1 /\ last'.op = "Scene::add"

\* the add has gone through: the child heads the chain and the chain's
\* former head is its next sibling
AddedTo(g, c) ==
    /\ first_child_of(nodes', g) = c
    /\ nodes'[c].next_sibling = first_child_of(nodes, g)
    /\ pc' = "drain"

SceneAdded(c) ==
    /\ scene_first_child' = c
    /\ nodes'[c].next_sibling = scene_first_child
    /\ pc' = pc

\* C16: re-parenting without removal is always reported and never fatal:
\* whenever AddChild or Scene::add is applied to a child that is still in
\* another parent's chain, the diagnostic is logged, the child's sibling link
\* is overwritten and the add goes through, also when the child was the last
\* or only element of its old chain.
C16_ReparentingReported ==
    [][ /\ (ReceivesAddChild
             /\ Holders(Head(queue).op.child) \ { Head(queue).target.idx } # {}) =>
            /\ last'.log = << OLD_SIBLINGS >>
            /\ AddedTo(Head(queue).target.idx, Head(queue).op.child)
        /\ (CallsSceneAdd /\ Holders(last'.child) \ { NoPtr } # {}) =>
            /\ last'.log = << OLD_SIBLINGS >>
            /\ SceneAdded(last'.child) ]_vars

\* what the code does: the diagnostic is logged exactly when the child's
\* next_sibling is set, whatever chains hold the child; the add always goes
\* through
C16_ReportedIfSiblingSet ==
    [][ /\ ReceivesAddChild =>
            /\ last'.log = IF nodes[Head(queue).op.child].next_sibling # NoPtr
                           THEN << OLD_SIBLINGS >> ELSE << >>
            /\ AddedTo(Head(queue).target.idx, Head(queue).op.child)
        /\ CallsSceneAdd =>
            /\ last'.log = IF nodes[last'.child].next_sibling # NoPtr
                           THEN << OLD_SIBLINGS >> ELSE << >>
            /\ SceneAdded(last'.child) ]_vars

\* the last child of one chain has just been added to another chain and
\* nothing was logged
C16_SilentReparenting ==
    \E c \in Live :
        /\ last.op \in { "AddChild", "Scene::add" } /\ last.child = c
        /\ last.log = << >>
        /\ Cardinality(Holders(c)) = 2
        /\ \E p \in Holders(c) \ { NoPtr } : first_child_of(nodes, p) # c

\* a client calls add or remove on a group or on the scene
CallsAddOrRemove == calls' = calls + 1

SceneCall == last'.op \in { "Scene::add", "Scene::remove" }

\* the call has only appended one AddChild or RemoveChild message
OnlyQueued ==
    /\ nodes' = nodes
    /\ scene_first_child' = scene_first_child
    /\ Len(queue') = Len(queue) + 1
    /\ SubSeq(queue', 1, Len(queue)) = queue
    /\ queue'[Len(queue')].op.type \in { "AddChild", "RemoveChild" }

\* C17: add(child) and remove(child) of both Group and Scene become AddChild
\* and RemoveChild messages of the channel: neither changes the node store at
\* the call, the effect comes when process_messages applies the message.
C17_AddRemoveAreMessages ==
    [][ CallsAddOrRemove => OnlyQueued ]_vars

\* what the code does: Group::add and Group::remove only queue a message;
\* Scene::add and Scene::remove queue nothing and change the scene's chain
\* during the call
C17_OnlyGroupQueues ==
    [][ /\ (CallsAddOrRemove /\ ~ SceneCall) => OnlyQueued
        /\ (CallsAddOrRemove /\ SceneCall) =>
            /\ queue' = queue
            /\ last'.op = "Scene::add" =>
                /\ scene_first_child' = last'.child
                /\ nodes'[last'.child].next_sibling = scene_first_child ]_vars

\* the program's only call so far was Scene::add, nothing is queued, and the
\* child already heads the scene's chain
C17_SceneAddedAtOnce ==
    /\ calls = 1
    /\ last.op = "Scene::add"
    /\ queue = << >>
    /\ scene_first_child = last.child
    /\ scene_first_child # NoPtr

Meshes == { n \in Slots : nodes[n].sub_node.kind = "Visual" }

\* process_messages returns
Returns == pc = "sync" /\ pc' = "idle"

\* C18: meshes are removed from the scene when dropped: once every client
\* handle of a mesh that was added to a scene or group has been dropped, then
\* after the next process_messages the mesh's node is in no child chain, and
\* update_graph and the Tree Walker do not visit it.
C18_DroppedMeshLeavesScene ==
    [][ /\ Returns =>
            \A n \in Meshes \ handles : n \in Live => Holders(n)' = {}
        /\ (pc = "idle" /\ queue = << >>) =>
            \A n \in Meshes \ handles :
                \A k \in 1 .. Len(Visits') :
                    (Visits' # Visits /\ n \in Live) => Visits'[k][2] # n ]_vars

\* what the code does: a mesh of the scene whose handles are all dropped
\* stays in the scene and is never reclaimed, whatever is processed
\* afterwards; only the end of the hub or a later add that discards siblings
\* takes it out
C18_DroppedMeshStays ==
    [][ \A n \in Meshes \ handles :
            (n \in InScene /\ ~ (n \in InScene /\ n \in Live)')
                => (pc' = "dropped" \/ ReceivesAddChild \/ CallsSceneAdd) ]_vars

\* a mesh without any handle heads the scene's chain after process_messages
\* has returned, and the update_graph that just ran has visited it
C18_DroppedMeshStillVisited ==
    \E n \in Meshes \ handles :
        /\ n \in Live
        /\ scene_first_child = n
        /\ Updated
        /\ \E k \in 1 .. Len(last.order) : last.order[k] = << NoPtr, n >>

\* the weak references to nodes that have been reclaimed: those made at an
\* epoch the slot has left behind
Dangling ==
    { w \in [idx : Slots, epoch : 0 .. MaxEpoch + 1] : w.epoch < epoch[w.idx] }

\* process_messages receives a message for a reclaimed node whose slot holds
\* a new node
ReceivesForReplaced ==
    /\ pc = "drain" /\ queue # << >> /\ Len(queue') < Len(queue)
    /\ Head(queue).target \in Dangling
    /\ Head(queue).target.idx \in Live

\* C19: once a node has been reclaimed, every weak reference to it fails to
\* resolve for ever after, also when a later spawn reuses its slot: a queued
\* message for the old node is never applied to the node that now occupies
\* the slot.
C19_NoAliasingOfReusedSlot ==
    [][ /\ \A k \in 1 .. Len(queue) :
              queue[k].target.epoch <= epoch[queue[k].target.idx]
        /\ \A w \in Dangling : w.epoch < epoch'[w.idx]
        /\ ReceivesForReplaced =>
              /\ nodes' = nodes
              /\ scene_first_child' = scene_first_child
              /\ last'.op = "skip"
              /\ pc' = "drain" ]_vars

\* a message for a reclaimed node has just been passed over while the node
\* spawned into its slot is held by the client, visible and outside every
\* chain
C19_Witness ==
    /\ last.op = "skip"
    /\ pc = "drain"
    /\ last.target \in handles
    /\ epoch[last.target] > 0
    /\ nodes[last.target].visible
    /\ Holders(last.target) = {}

\* the links form a forest: no node is in two child chains and no link
\* cycle exists
WellFormed ==
    /\ \A n \in Live : Cardinality(Holders(n)) <= 1
    /\ \A n \in Live : ~ Cyclic(nodes, n)

\* the nodes the walker has descended to, in order
Descended == [k \in 1 .. Len(walker.pushed) |-> walker.pushed[k][2]]

In(seq, a) == \E k \in 1 .. Len(seq) : seq[k] = a

Before(seq, a, b) == \E j, k \in 1 .. Len(seq) : j < k /\ seq[j] = a /\ seq[k] = b

Subtree(c) == { c } \cup Reach(nodes, first_child_of(nodes, c))

LaterSiblings(c) == Chain(nodes, nodes[c].next_sibling)

\* whatever the walker visits of a node's subtree has left the stack before
\* any later sibling of the node leaves it
SubtreeBeforeLaterSiblings ==
    \A c1 \in Pushed : \A c2 \in LaterSiblings(c1), d \in Subtree(c1) \cap Pushed :
        In(walker.popped, c2) => Before(walker.popped, d, c2)

RECURSIVE VisibleUpTo(_, _, _)
VisibleUpTo(b, n, fuel) ==
    IF n = b THEN nodes[b].visible
    ELSE /\ fuel > 0
         /\ nodes[n].visible
         /\ \E p \in Holders(n) \ { NoPtr } : VisibleUpTo(b, p, fuel - 1)

\* the walker has handed out exactly the nodes it took off the stack with
\* world_visible = true
YieldsIffWorldVisible ==
    /\ \A k \in 1 .. Len(walker.yielded) :
          /\ nodes[walker.yielded[k]].world_visible
          /\ In(walker.popped, walker.yielded[k])
    /\ \A k \in 1 .. Len(walker.popped) :
          nodes[walker.popped[k]].world_visible => Yields(walker.popped[k]) = 1

\* C21: the Tree Walker yields a popped node if and only if its computed
\* world_visible is true, a node with world_visible = false is consumed
\* without emission and the walk goes on; so every node that is visible
\* together with all its ancestors up to the base is yielded exactly once.
C21_YieldsEveryVisibleNode ==
    (pc = "walk" /\ walker.done /\ WellFormed) =>
        /\ YieldsIffWorldVisible
        /\ \A n \in Subtree(walker.base) :
              VisibleUpTo(walker.base, n, Len(nodes)) => Yields(n) = 1

\* the part the code keeps: what is yielded is what was popped with
\* world_visible = true, and a walk that ends has emptied its stack
C21_YieldsOnlyWorldVisible ==
    (pc = "walk" /\ WellFormed) =>
        /\ YieldsIffWorldVisible
        /\ walker.done => walker.stack = << >>

\* a walk over a base with at least two descendants, all of them visible,
\* has ended: every node was taken off the stack and none was yielded
C21_NothingYielded ==
    /\ pc = "walk" /\ walker.done /\ WellFormed
    /\ Cardinality(Subtree(walker.base)) >= 3
    /\ \A n \in Subtree(walker.base) :
          nodes[n].visible /\ In(walker.popped, n) /\ ~ nodes[n].world_visible
    /\ walker.yielded = << >>

\* the nodes below i
Descendants(i) == Reach(nodes, first_child_of(nodes, i))

\* C22: pruning: during a walk over a well-formed tree no descendant of a
\* node whose local visible flag is false is ever pushed on the stack,
\* recomputed or yielded, while every later sibling of that invisible node is
\* still pushed and processed.
C22_Pruning ==
    [][ (pc' = "walk" /\ WellFormed) =>
            \A i \in Pushed' :
                ~ nodes[i].visible =>
                    /\ \A d \in Descendants(i) :
                          /\ d \notin Pushed'
                          /\ nodes'[d] = nodes[d]
                          /\ Yields(d)' = 0
                    /\ walker'.done =>
                          \A s \in LaterSiblings(i) :
                              s \in Pushed' /\ In(walker'.popped, s) ]_vars

\* a walk over p -> (i -> (d), s) with i invisible has ended: d was never
\* pushed, the later sibling s was pushed and taken off the stack
C22_Witness ==
    /\ pc = "walk" /\ walker.done /\ WellFormed
    /\ \E i \in Pushed, d \in Live, s \in Pushed :
          /\ ~ nodes[i].visible
          /\ first_child_of(nodes, i) = d
          /\ nodes[i].next_sibling = s
          /\ nodes[d].visible
          /\ d \notin Pushed
          /\ In(walker.popped, s)

\* the nodes the last update_graph has processed, in order
Processed == [k \in 1 .. Len(last.order) |-> last.order[k][2]]

\* C23: update_graph visits the nodes in standard pre-order: a parent is
\* processed before any of its children and before any node of its later
\* siblings' subtrees, a node's subtree before its later siblings; so a
\* child's world_transform is computed from a parent world_transform that was
\* updated earlier in the same pass.
C23_UpdateGraphPreOrder ==
    (Updated /\ WellFormed) =>
        /\ Len(Processed) = Cardinality(InScene)
        /\ \A n \in InScene : In(Processed, n)
        /\ \A k \in 1 .. Len(last.order) :
              LET p == last.order[k][1]
                  c == last.order[k][2]
              IN  p # NoPtr =>
                    /\ c \in Children(nodes, p)
                    /\ Before(Processed, p, c)
                    /\ nodes[c].world_transform =
                          concat(nodes[p].world_transform, nodes[c].transform)
        /\ \A n \in InScene : \A s \in LaterSiblings(n) :
              /\ \A d \in Subtree(s) : Before(Processed, n, d)
              /\ \A d \in Subtree(n) : Before(Processed, d, s)

\* update_graph has run over the scene p -> (c1 -> (d), c2) and has
\* processed p, c1, d, c2 in that order
C23_Witness ==
    /\ Updated /\ WellFormed
    /\ \E p \in Live, c1 \in Live, c2 \in Live, d \in Live :
          /\ scene_first_child = p
          /\ first_child_of(nodes, p) = c1
          /\ nodes[c1].next_sibling = c2
          /\ first_child_of(nodes, c1) = d
          /\ last.order = << << NoPtr, p >>, << p, c1 >>, << c1, d >>, << p, c2 >> >>

\* a traversal is under way or has just ended
Traversing == last.op = "update_graph" \/ walker.active

\* the traversal has ended or can go on, and it has processed no more nodes
\* than the store holds
BoundedTraversal ==
    /\ pc # "hung"
    /\ Len(Visits) <= Cardinality(Live)
    /\ Len(walker.popped) <= Cardinality(Live)

\* C24: after any sequence of add and remove operations applied to the
\* graph, update_graph terminates and a Tree Walker yields a finite sequence,
\* each doing work bounded by the number of live nodes.
C24_TraversalsTerminate ==
    Traversing => BoundedTraversal

\* what the code does: over a forest both traversals end and process each
\* node at most once
C24_OnForests ==
    (Traversing /\ WellFormed) => BoundedTraversal

\* update_graph never returns: the head of the scene's chain was added twice
\* and is its own next sibling
C24_UpdateGraphHangs ==
    /\ pc = "hung"
    /\ last.op = "update_graph"
    /\ scene_first_child # NoPtr
    /\ nodes[scene_first_child].next_sibling = scene_first_child

\* a walker never returns from next over the same chain
C24_WalkerHangs ==
    /\ pc = "hung"
    /\ walker.active
    /\ nodes[walker.base].next_sibling = walker.base

\* ------------------------------------------------- frame entry points
\* Renderer::render and Scene::sync_guard lock the hub and call
\* Hub::prepare_graph, which applies the pending mutations and then
\* recomputes the world state.

\* the `while let` loop of process_messages run until try_recv fails, or
\* until a turn of it panics or never ends
RECURSIVE drain_all(_, _)
\* a drain that takes one message only, as `if let` in place of `while let`
drain_one(q, ns) ==
    IF q = << >> THEN [status |-> "ok", nodes |-> ns, queue |-> q]
    ELSE LET ptr == upgrade(Head(q).target)
             r   == IF ptr = NoPtr THEN Outcome("ok", ns, << >>)
                    ELSE apply(ns, ptr, Head(q).op)
         IN  [status |-> r.status, nodes |-> r.nodes, queue |-> Tail(q)]

drain_all(q, ns) ==
    IF q = << >> THEN [status |-> "ok", nodes |-> ns, queue |-> q]
    ELSE LET ptr == upgrade(Head(q).target)
             r   == IF ptr = NoPtr THEN Outcome("ok", ns, << >>)
                    ELSE apply(ns, ptr, Head(q).op)
         IN  IF r.status # "ok"
             THEN [status |-> r.status, nodes |-> r.nodes, queue |-> Tail(q)]
             ELSE drain_all(Tail(q), r.nodes)

\* what sync_pending reclaims at the end of that process_messages
ReclaimedAfter(ns, q) ==
    { n \in Live :
        /\ n \notin handles
        /\ scene_first_child # n
        /\ \A j \in Slots : ns[j].next_sibling # n /\ ns[j].sub_node.first_child # n
        /\ \A k \in 1 .. Len(q) : q[k].op.child # n }

\* Hub::prepare_graph under the caller's lock: process_messages to its end,
\* then update_graph
prepare_graph(caller) ==
    /\ pc = "idle"
    /\ \E d \in { drain_all(queue, nodes) } :
          /\ queue' = d.queue
          /\ IF d.status # "ok"
             THEN /\ pc' = IF d.status = "panic" THEN "panicked" ELSE "hung"
                  /\ nodes' = d.nodes
                  /\ UNCHANGED << epoch, free_list >>
                  /\ last' = Did(caller, NoPtr, NoPtr, << >>, << >>)
             ELSE /\ epoch' = [i \in Slots |->
                                 IF i \in ReclaimedAfter(d.nodes, d.queue)
                                 THEN epoch[i] + 1 ELSE epoch[i]]
                  /\ free_list' = free_list \cup ReclaimedAfter(d.nodes, d.queue)
                  /\ IF Cyclic(d.nodes, scene_first_child)
                     THEN /\ pc' = "hung"
                          /\ nodes' = d.nodes
                          /\ last' = Did(caller, NoPtr, NoPtr, << >>, << >>)
                     ELSE \E u \in { update_loop(IF scene_first_child # NoPtr
                                                 THEN << Item(NoPtr, scene_first_child) >>
                                                 ELSE << >>,
                                                 d.nodes, << >>) } :
                              /\ pc' = "idle"
                              /\ nodes' = u.nodes
                              /\ last' = Did(caller, NoPtr, NoPtr, << >>, u.order)
    /\ UNCHANGED << handles, scene_first_child, walker, calls >>

Renderer_render == prepare_graph("Renderer::render")

Scene_sync_guard == prepare_graph("Scene::sync_guard")

\* SpecFrame: client threads place a group and a mesh and move them while
\* the render thread runs frames and walks the scene
NextFrame ==
    \/ calls = 0 /\ AllGroups /\ Group_new(XfNodes)
    \/ calls = 0 /\ spawn_visual(XfNodes)
    \/ calls < FrameCalls /\ \E n \in handles, p \in Pos : set_position(n, p)
    \/ calls < FrameCalls /\ \E g \in Groups, c \in handles : Group_add(g, c)
    \/ calls < FrameCalls /\ \E c \in handles : Scene_add(c)
    \/ Renderer_render
    \/ Scene_sync_guard
    \/ walk(scene_first_child)
    \/ next
    \/ drop_walker

SpecFrame == Init /\ [][NextFrame]_vars

\* a frame entry point runs
FrameStep == last'.op \in { "Renderer::render", "Scene::sync_guard" }

\* how often the pass recorded in order has processed n
Times(order, n) == Cardinality({ k \in 1 .. Len(order) : order[k][2] = n })

LockHeld == pc \in { "drain", "sync", "walk" }

\* the channel has room and the budget of calls is not used up
MaySend == Len(queue) < MaxQueue /\ calls < RaceCalls

\* C26: handles send from any thread without coordination: a send (a
\* setter, Group::add) does not take the hub lock, so it stays enabled while
\* another thread holds that lock for process_messages or a traversal; and
\* with several producers no message is lost or duplicated: the channel
\* changes only by one message of a held handle appended at its end or by
\* process_messages taking the message at its head.
C26_SendWithoutLock ==
    /\ [](LockHeld /\ MaySend =>
            /\ \A n \in handles :
                  ENABLED (calls < RaceCalls /\ set_visible(n, FALSE))
            /\ \A g \in Groups, c \in handles :
                  ENABLED (calls < RaceCalls /\ Group_add(g, c)))
    /\ [][ /\ Len(queue') > Len(queue) =>
               /\ queue' = Append(queue, queue'[Len(queue')])
               /\ queue'[Len(queue')].target.idx \in handles
               /\ queue'[Len(queue')].target.epoch =
                      epoch[queue'[Len(queue')].target.idx]
           /\ (Len(queue') < Len(queue) /\ pc' # "dropped") =>
               /\ pc = "drain"
               /\ queue' = Tail(queue)
           /\ Len(queue') = Len(queue) => queue' = queue ]_vars

\* a handle has sent a message while a walker, started on an empty channel,
\* holds the hub
C26_Witness ==
    /\ pc = "walk"
    /\ walker.active
    /\ Len(queue) = 1
    /\ queue[1].target.idx \in handles

\* C27: store reclamation happens only at the end of process_messages: a
\* slot is freed, or its epoch moves, only in the step that follows the end
\* of the drain loop and ends the call, with no message applied in that
\* step; it never happens inside the loop and never while a Tree Walker
\* exists.
C27_ReclaimOnlyAfterDrain ==
    [][ ((\E i \in Slots : epoch'[i] # epoch[i])
            \/ ~ (free_list' \subseteq free_list)) =>
            /\ pc = "sync" /\ pc' = "idle"
            /\ ~ walker.active /\ ~ walker'.active
            /\ nodes' = nodes /\ queue' = queue
            /\ free_list' = free_list \cup Reclaimed
      ]_vars

\* a slot has been reclaimed before, and now a node nobody refers to waits
\* in the store while a walker traverses it
C27_Witness ==
    /\ pc = "walk" /\ walker.active
    /\ Reclaimed # {}
    /\ \E i \in Slots : epoch[i] > 0

\* the live groups that have c in their child chain
GroupsOf(c) == { g \in Live : c \in Children(nodes, g) }

\* the number of groups above n; fuel bounds the climb
RECURSIVE DepthOf(_, _)
DepthOf(n, fuel) ==
    IF fuel = 0 \/ GroupsOf(n) = {} THEN 0
    ELSE 1 + DepthOf(CHOOSE g \in GroupsOf(n) : TRUE, fuel - 1)

\* the stack s is a parent-to-child path no longer than its top is deep
IsPath(s) ==
    /\ \A k \in 1 .. Len(s) - 1 : s[k + 1] \in Children(nodes, s[k])
    /\ s # << >> => Len(s) <= DepthOf(s[Len(s)], Len(nodes)) + 1

\* C28: the depth of the walker's stack is bounded by the depth of the tree,
\* not by its width: at every point of a walk over a well-formed tree (after
\* the first descent and after every turn of next) each entry of the stack
\* lies in the child chain of the entry beneath it, and the stack is no
\* longer than the depth of its top node plus one.
C28_StackIsPath ==
    (walker.active /\ WellFormed) =>
        \A k \in 1 .. Len(walker.stacks) : IsPath(walker.stacks[k])

\* a group with three children has been walked: the stack held two entries
\* three times over, never more
C28_Witness ==
    /\ walker.active /\ walker.done /\ WellFormed
    /\ \E g \in Groups :
          /\ Cardinality(Children(nodes, g)) = 3
          /\ walker.base = g
          /\ Cardinality({ k \in 1 .. Len(walker.stacks) :
                              Len(walker.stacks[k]) = 2 }) = 3

\* C29: a node created by Hub::spawn starts with transform = identity,
\* world_transform = identity, visible = true, world_visible = false,
\* next_sibling = none and the given payload; the returned handle refers to
\* exactly that node, which occupies a slot no live node had; and every
\* node that existed keeps all of its fields and its epoch.
C29_SpawnDefaults ==
    [][ handles' # handles /\ handles \subseteq handles' =>
          \E i \in handles' \ handles :
              /\ handles' = handles \cup {i}
              /\ i \notin Live
              /\ i \in (Slots \ free_list)'
              /\ nodes'[i].transform = one
              /\ nodes'[i].world_transform = one
              /\ nodes'[i].visible
              /\ ~ nodes'[i].world_visible
              /\ nodes'[i].next_sibling = NoPtr
              /\ nodes'[i].sub_node \in { SubNode("Group"), SubNode("Visual") }
              /\ i \in Slots => epoch'[i] = epoch[i]
              /\ \A j \in Live : nodes'[j] = nodes[j] /\ epoch'[j] = epoch[j]
      ]_vars

\* a handle holds a node spawned into a reclaimed slot, fresh, next to a
\* node that was hidden before and still is
C29_Witness ==
    \E i \in handles :
        /\ epoch[i] > 0
        /\ nodes[i] = NodeInternal(nodes[i].sub_node)
        /\ \E j \in Live \ {i} : ~ nodes[j].visible

\* the world state of the walker's base is its local state
BaseComputed ==
    /\ nodes[walker.base].world_transform = nodes[walker.base].transform
    /\ nodes[walker.base].world_visible = nodes[walker.base].visible

\* every node pushed above another entry has the world state composed from
\* that entry, which is its parent
OthersComputed ==
    \A k \in 1 .. Len(walker.pushed) :
        LET p == walker.pushed[k][1]
            n == walker.pushed[k][2]
        IN  p # NoPtr =>
              /\ n \in Children(nodes, p)
              /\ nodes[n].world_transform =
                     concat(nodes[p].world_transform, nodes[n].transform)
              /\ nodes[n].world_visible =
                     (nodes[p].world_visible /\ nodes[n].visible)

\* C30: the Tree Walker computes the world state of every node it visits,
\* so that no update_graph pass is needed before a walk: the base node has
\* world_transform = transform and world_visible = visible, and every other
\* pushed node has world_transform = parent.world_transform composed with
\* its transform and world_visible = parent.world_visible AND visible, the
\* parent being its actual parent.
C30_WalkerComputesWorldState ==
    (pc = "walk" /\ walker.active /\ WellFormed) =>
        BaseComputed /\ OthersComputed

\* the part the code keeps: the nodes pushed above another entry
C30_OthersComputed ==
    (pc = "walk" /\ walker.active /\ WellFormed) => OthersComputed

\* a walk has run to its end from a visible group over its visible child:
\* the group's world_visible, never computed, is false and so is the child's
C30_BaseNotComputed ==
    /\ pc = "walk" /\ walker.done /\ WellFormed
    /\ nodes[walker.base].visible
    /\ ~ nodes[walker.base].world_visible
    /\ \E c \in Children(nodes, walker.base) :
          /\ << walker.base, c >> \in { walker.pushed[k] : k \in 1 .. Len(walker.pushed) }
          /\ nodes[c].visible /\ ~ nodes[c].world_visible

\* the sibling chain that starts at first, in order; fuel stops the walk of
\* a chain that does not end
RECURSIVE ChainSeq(_, _, _)
ChainSeq(ns, first, fuel) ==
    IF first = NoPtr \/ fuel = 0 THEN << >>
    ELSE << first >> \o ChainSeq(ns, ns[first].next_sibling, fuel - 1)

ChainOf(ns, first) == ChainSeq(ns, first, Len(ns) + 1)

\* the chain ends: it is finite and holds no node twice
WellChain(ns, first) == Len(ChainOf(ns, first)) <= Len(ns)

Without(seq, c) == SelectSeq(seq, LAMBDA x : x # c)

\* process_messages applies a RemoveChild in this step
RemoveChildStep == Len(queue') < Len(queue) /\ last'.op = "RemoveChild"

\* Scene::remove runs in this step
SceneRemoveStep == calls' = calls + 1 /\ last'.op = "Scene::remove"

\* C31: RemoveChild(C) on a parent whose well-formed child chain contains C
\* splices out exactly C: the chain afterwards is the chain before without
\* C, the other children in their order, wherever C stood; the same for
\* Scene::remove and the root chain; and so AddChild(C) followed by
\* RemoveChild(C) on a parent with a well-formed chain that does not hold C
\* gives that chain back.
C31_SpliceOutExactlyC ==
    /\ [][ /\ RemoveChildStep =>
                LET p == last'.target
                    c == last'.child
                IN  (/\ nodes[p].sub_node.kind = "Group"
                     /\ WellChain(nodes, first_child_of(nodes, p))
                     /\ In(ChainOf(nodes, first_child_of(nodes, p)), c)) =>
                        /\ pc' = "drain"
                        /\ ChainOf(nodes', first_child_of(nodes', p)) =
                               Without(ChainOf(nodes, first_child_of(nodes, p)), c)
           /\ SceneRemoveStep =>
                LET c == last'.child
                IN  (/\ WellChain(nodes, scene_first_child)
                     /\ In(ChainOf(nodes, scene_first_child), c)) =>
                        /\ pc' = "idle"
                        /\ ChainOf(nodes', scene_first_child') =
                               Without(ChainOf(nodes, scene_first_child), c) ]_vars
    /\ [](\A p \in Live, c \in Live :
            (/\ nodes[p].sub_node.kind = "Group"
             /\ WellChain(nodes, first_child_of(nodes, p))
             /\ ~ In(ChainOf(nodes, first_child_of(nodes, p)), c)) =>
                LET added   == AddChild(nodes, p, c).nodes
                    removed == RemoveChild(added, p, c).nodes
                IN  ChainOf(removed, first_child_of(removed, p)) =
                        ChainOf(nodes, first_child_of(nodes, p)))

\* Scene::remove has taken the middle one of three roots: the two that are
\* left follow each other
C31_Witness ==
    /\ last.op = "Scene::remove" /\ pc = "idle"
    /\ \E h \in Live, t \in Live :
          /\ h # t /\ last.child \notin { h, t }
          /\ ChainOf(nodes, scene_first_child) = << h, t >>
          /\ nodes[last.child].next_sibling = t

\* process_messages applies an operation of the given type to a live target
Applies(type) ==
    /\ pc = "drain" /\ queue # << >> /\ Len(queue') < Len(queue)
    /\ Head(queue).op.type = type
    /\ Head(queue).target.idx \in Live
    /\ epoch[Head(queue).target.idx] = Head(queue).target.epoch

\* all fields of n but its visible flag and its transform are as they were
RestUnchanged(n) ==
    /\ nodes'[n].world_transform = nodes[n].world_transform
    /\ nodes'[n].world_visible = nodes[n].world_visible
    /\ nodes'[n].sub_node = nodes[n].sub_node
    /\ nodes'[n].next_sibling = nodes[n].next_sibling

\* C32: applying an attribute operation mutates only the fields it concerns
\* on its target: SetVisible changes only target.visible, SetTransform only
\* target.transform (and of it only the parts the message carries); the
\* target's world state, payload and sibling link and every field of every
\* other node stay as they were.
C32_AttributeFrame ==
    [][ /\ Applies("SetVisible") =>
            LET t == Head(queue).target.idx
            IN  /\ nodes'[t].visible = Head(queue).op.visible
                /\ nodes'[t].transform = nodes[t].transform
                /\ RestUnchanged(t)
                /\ \A n \in Slots \ {t} : nodes'[n] = nodes[n]
        /\ Applies("SetTransform") =>
            LET t  == Head(queue).target.idx
                op == Head(queue).op
            IN  /\ nodes'[t].visible = nodes[t].visible
                /\ nodes'[t].transform.disp =
                       IF IsSome(op.pos) THEN Unwrap(op.pos) ELSE nodes[t].transform.disp
                /\ nodes'[t].transform.rot =
                       IF IsSome(op.rot) THEN Unwrap(op.rot) ELSE nodes[t].transform.rot
                /\ nodes'[t].transform.scale =
                       IF IsSome(op.scale) THEN Unwrap(op.scale)
                       ELSE nodes[t].transform.scale
                /\ RestUnchanged(t)
                /\ \A n \in Slots \ {t} : nodes'[n] = nodes[n] ]_vars

\* a node has been hidden and another one moved: the first's derived flag
\* and the second's world transform are what they were at spawn
C32_Witness ==
    /\ pc = "drain"
    /\ last.op = "SetTransform"
    /\ nodes[last.target].transform # one
    /\ nodes[last.target].world_transform = one
    /\ \E n \in Live \ { last.target } :
          ~ nodes[n].visible /\ ~ nodes[n].world_visible

\* the pointer p refers to a node of the store, or to none
Resolves(p) == p = NoPtr \/ p \in Live

\* C33: every node-store lookup made by process_messages, update_graph and
\* the Tree Walker resolves to a live node: no child pointer of a queued
\* AddChild or RemoveChild, no first_child or next_sibling link of a live
\* node, no scene root and no entry of the walker's stack refers to a
\* reclaimed node, in any reachable state, also after handles were dropped
\* and sync_pending has run.
C33_LookupsResolve ==
    /\ \A n \in Live :
          Resolves(nodes[n].next_sibling) /\ Resolves(nodes[n].sub_node.first_child)
    /\ \A k \in 1 .. Len(queue) : Resolves(queue[k].op.child)
    /\ Resolves(scene_first_child)
    /\ \A k \in 1 .. Len(walker.stack) : walker.stack[k] \in Live

\* after a reclamation earlier in the run, a node whose handle was dropped
\* is kept in the store by the link of its group, with nothing pending
C33_Witness ==
    /\ pc = "idle" /\ queue = << >>
    /\ \E i \in Slots : epoch[i] > 0
    /\ \E g \in Live, n \in Live \ handles :
          first_child_of(nodes, g) = n /\ n # g

\* process_messages receives a message that a method of the handle API has
\* sent: any operation but an AddChild or RemoveChild addressed to a node
\* that is no group, which Group::add and Group::remove cannot send
ReceivesApiMessage ==
    /\ pc = "drain" /\ queue # << >> /\ Len(queue') < Len(queue)
    /\ (Head(queue).op.type \in { "AddChild", "RemoveChild" }
          /\ Head(queue).target.idx \in Live) =>
            nodes[Head(queue).target.idx].sub_node.kind = "Group"

\* C34: process_messages does not panic on any message the public handle
\* API can enqueue (set_visible, the transform setters, look_at,
\* set_material, set_weights, Group::add, Group::remove), in whatever order
\* they were sent.
C34_NoPanicOnApiMessages ==
    [][ ReceivesApiMessage => pc' # "panicked" ]_vars

\* the part the code keeps: every such message but SetWeights
C34_OnlySetWeightsPanics ==
    [][ (ReceivesApiMessage /\ Head(queue).op.type # "SetWeights")
            => pc' # "panicked" ]_vars

\* process_messages has panicked on the SetWeights of a live mesh
C34_SetWeightsPanicked ==
    /\ pc = "panicked"
    /\ last.op = "SetWeights"
    /\ last.target \in Live
    /\ nodes[last.target].sub_node.kind = "Visual"

\* C35: after any sequence of Group::add, Group::remove, Scene::add and
\* Scene::remove (also when a child is added twice to one parent, a group to
\* itself or to one of its descendants) the link structure is acyclic: no
\* node is reachable from itself along first_child and next_sibling links.
C35_Acyclic ==
    \A n \in Live : n \notin ReachFrom(nodes, Succ(nodes, n))

\* the part the code keeps: a removal never closes a cycle
C35_RemovalKeepsAcyclic ==
    [][ (C35_Acyclic /\ (RemoveChildStep \/ SceneRemoveStep)) => C35_Acyclic' ]_vars

\* a group has been added to itself and is now its own first child
C35_GroupUnderItself ==
    /\ last.op = "AddChild" /\ pc = "drain"
    /\ last.target = last.child
    /\ first_child_of(nodes, last.target) = last.target

\* this step removes the child c from a well-formed chain that holds it: the
\* chain of the group a RemoveChild is addressed to, or the root chain
Removes(c) ==
    \/ /\ RemoveChildStep /\ last'.child = c
       /\ nodes[last'.target].sub_node.kind = "Group"
       /\ WellChain(nodes, first_child_of(nodes, last'.target))
       /\ In(ChainOf(nodes, first_child_of(nodes, last'.target)), c)
    \/ /\ SceneRemoveStep /\ last'.child = c
       /\ WellChain(nodes, scene_first_child)
       /\ In(ChainOf(nodes, scene_first_child), c)

\* C36: after RemoveChild(C) or Scene::remove(C) has removed C from a chain,
\* C.next_sibling is none: the removed node no longer refers to its former
\* siblings.
C36_RemovedNodeUnlinked ==
    [][ \A c \in Live : Removes(c) => nodes'[c].next_sibling = NoPtr ]_vars

\* what the code does: the removed node keeps the link it had
C36_RemovedNodeKeepsLink ==
    [][ \A c \in Live : Removes(c) => nodes'[c].next_sibling = nodes[c].next_sibling ]_vars

\* a RemoveChild has taken the head child out of its group, and the removed
\* node still points at the child that is left
C36_StillLinked ==
    /\ last.op = "RemoveChild" /\ pc = "drain"
    /\ last.target \in Live /\ last.child \in Live
    /\ nodes[last.child].next_sibling # NoPtr
    /\ ChainOf(nodes, first_child_of(nodes, last.target)) =
           << nodes[last.child].next_sibling >>

\* Scene::add runs in this step
SceneAddStep == calls' = calls + 1 /\ last'.op = "Scene::add"

\* a Group::add or Group::remove issued earlier has not been applied yet
StructuralPending ==
    \E k \in 1 .. Len(queue) : queue[k].op.type \in { "AddChild", "RemoveChild" }

\* C37: structural operations issued by one client thread take effect on
\* the graph in program order also when Scene and Group calls are mixed: a
\* Scene::add or Scene::remove never changes the graph while a Group::add or
\* Group::remove issued before it is still waiting to be applied.
C37_ProgramOrder ==
    [][ (SceneAddStep \/ SceneRemoveStep) => ~ StructuralPending ]_vars

\* the client removed a child from its group and then added it to the
\* scene; the removal, applied after the add, has handed the group the
\* scene's other root: the group's chain and the root chain share a node
C37_ChainsShareNode ==
    /\ last.op = "RemoveChild" /\ pc = "drain"
    /\ last.target \in Live /\ last.child \in Live
    /\ scene_first_child = last.child
    /\ last.child \notin Children(nodes, last.target)
    /\ nodes[last.child].next_sibling # NoPtr
    /\ first_child_of(nodes, last.target) = nodes[last.child].next_sibling
    /\ nodes[last.child].next_sibling \in Roots

\* how often the walker has pushed n
Pushes(n) == Cardinality({ k \in 1 .. Len(walker.pushed) : walker.pushed[k][2] = n })

\* C38 as stated: a Tree Walker constructed at base node B is confined to
\* B's subtree: it pushes only B and descendants of B, never B's next
\* siblings or their subtrees.
C38_ConfinedToSubtree ==
    walker.active => Pushed \subseteq Subtree(walker.base)

\* C38: a Tree Walker constructed at base node B is confined to the nodes
\* that B's first_child and next_sibling links lead to: B's subtree and the
\* subtrees of B's later siblings. It pushes, recomputes and yields only
\* those, and over a well-formed tree it pushes each of them at most once.
C38_ConfinedToReach ==
    /\ [](walker.active =>
            /\ Pushed \subseteq Reach(nodes, walker.base)
            /\ \A k \in 1 .. Len(walker.yielded) : walker.yielded[k] \in Pushed
            /\ WellFormed => \A n \in Pushed : Pushes(n) = 1)
    /\ [][ (pc = "walk" \/ pc' = "walk") =>
             \A n \in Slots : n \notin Reach(nodes', walker'.base) =>
                                 nodes'[n] = nodes[n] ]_vars

\* a walk from the first of two children of a group has run to its end: it
\* has pushed the second child, which is no descendant of the first, and not
\* the group
C38_Witness ==
    /\ walker.active /\ walker.done /\ WellFormed
    /\ nodes[walker.base].next_sibling # NoPtr
    /\ nodes[walker.base].next_sibling \in Pushed
    /\ nodes[walker.base].next_sibling \notin Subtree(walker.base)
    /\ \E g \in Groups : first_child_of(nodes, g) = walker.base /\ g \notin Pushed

\* update_graph runs in this step
UpdateGraphStep == pc = "idle" /\ last'.op = "update_graph"

\* C39: update_graph(scene) writes only derived world state of nodes
\* reachable from the scene's root chain: it leaves visible, transform,
\* payload (first_child included) and next_sibling of every node unchanged,
\* leaves every field of the nodes not reachable from the scene unchanged,
\* and touches neither the scene root nor the store's slots nor the channel.
C39_UpdateGraphFrame ==
    [][ UpdateGraphStep =>
          /\ \A n \in Slots :
                /\ nodes'[n].visible = nodes[n].visible
                /\ nodes'[n].transform = nodes[n].transform
                /\ nodes'[n].sub_node = nodes[n].sub_node
                /\ nodes'[n].next_sibling = nodes[n].next_sibling
                /\ n \notin InScene => nodes'[n] = nodes[n]
          /\ scene_first_child' = scene_first_child
          /\ epoch' = epoch /\ free_list' = free_list /\ handles' = handles
          /\ queue' = queue ]_vars

\* update_graph has returned: a moved node of the scene has its world
\* transform, a moved node outside the scene still the one of its spawn
C39_Witness ==
    /\ Updated
    /\ \E m \in InScene : nodes[m].world_transform # one
    /\ \E n \in Live \ InScene :
          nodes[n].transform # one /\ nodes[n].world_transform = one

====
